---------------------------- MODULE Spec2Model ----------------------------
(***************************************************************************)
(* Verification model of the sports-betting EV calculator: the devig and   *)
(* market-resolution functions, the single and batch orchestrators, the    *)
(* upstream fetch client and the two-layer Redis cache with hash-based     *)
(* invalidation.                                                           *)
(*                                                                         *)
(* Numbers are exact rationals [n, d] (the payloads used carry finite,     *)
(* non-negative `odds` and parseable non-zero American odds, as the data   *)
(* assumptions of the repository require, so no value is NaN or infinite). *)
(* Strings that end up inside a Redis key are sequences of tokens, so that *)
(* joining, prefix matching and sorting are computed, not assumed.         *)
(***************************************************************************)
EXTENDS Integers, Sequences, FiniteSets, TLC

VARIABLES
    redis,           \* the Redis keyspace: key (token sequence) -> stored value
    redisClient,     \* redis.ts: module variable redisClient (TRUE once initialised)
    redisAvailable,  \* redis.ts: module variable redisAvailable
    env,             \* process environment: REDIS_URL set, `bun` importable
    last             \* the last completed call: its inputs and what it returned

vars == <<redis, redisClient, redisAvailable, env, last>>

-----------------------------------------------------------------------------
(* Bounds of the model *)

\* most items in one batch request (the schema allows up to 10)
MaxItems == 2
\* longest reference-book list whose signature is compared
MaxSharps == 3
\* most Redis commands that fail independently during one call (besides a full outage)

-----------------------------------------------------------------------------
(* Generic helpers *)

\* An optional value is a sequence: <<>> when absent (undefined, null, NaN), <<v>> when present
None == <<>>
Some(v) == <<v>>

SeqToSet(s) == {s[i] : i \in 1..Len(s)}

RECURSIVE Filter(_, _)
\* Array.prototype.filter with the predicate given as the set of accepted values
Filter(s, keep) ==
    IF s = <<>> THEN <<>>
    ELSE IF Head(s) \in keep THEN <<Head(s)>> \o Filter(Tail(s), keep)
    ELSE Filter(Tail(s), keep)

RECURSIVE Unique(_)
\* Array.from(new Set(s)): first occurrences, in order
Unique(s) ==
    IF s = <<>> THEN <<>>
    ELSE <<Head(s)>> \o Filter(Unique(Tail(s)), SeqToSet(Tail(s)) \ {Head(s)})

RECURSIVE FlatMap(_)
FlatMap(ss) == IF ss = <<>> THEN <<>> ELSE Head(ss) \o FlatMap(Tail(ss))

\* Array.prototype.find: the first element in `keep` as Some(v), or None
Find(s, keep) ==
    LET f == Filter(s, keep) IN IF f = <<>> THEN None ELSE Some(Head(f))

Put(store, k, v) == [x \in (DOMAIN store) \cup {k} |-> IF x = k THEN v ELSE store[x]]
Del(store, k) == [x \in (DOMAIN store) \ {k} |-> store[x]]
\* the element of a singleton: Only({e : x \in {v}}) is e with x standing for v
Only(S) == CHOOSE v \in S : TRUE

EmptyStore == [x \in {} |-> None]

-----------------------------------------------------------------------------
(* Exact rational arithmetic standing for the JavaScript numbers *)

Abs(x) == IF x < 0 THEN -x ELSE x

RECURSIVE GCD(_, _)
GCD(a, b) == IF b = 0 THEN a ELSE GCD(b, a % b)

Rat(n, d) ==
    LET g == GCD(Abs(n), Abs(d))
        s == IF d < 0 THEN -1 ELSE 1
    IN [n |-> (s * n) \div g, d |-> (s * d) \div g]

RInt(i) == [n |-> i, d |-> 1]
RAdd(a, b) == Rat(a.n * b.d + b.n * a.d, a.d * b.d)
RSub(a, b) == Rat(a.n * b.d - b.n * a.d, a.d * b.d)
RMul(a, b) == Rat(a.n * b.n, a.d * b.d)
RDiv(a, b) == Rat(a.n * b.d, a.d * b.n)
RLeq(a, b) == a.n * b.d <= b.n * a.d
RMax(a, b) == IF RLeq(a, b) THEN b ELSE a

-----------------------------------------------------------------------------
(* Errors: code, message and HTTP status of each error class *)

Err(code, message, httpStatus) ==
    [code |-> code, message |-> message, httpStatus |-> httpStatus]

OfferNotFoundError(offerId) ==
    Err("OFFER_NOT_FOUND", <<"Offer not found for ID: ", offerId>>, 404)
OfferNotFoundForPlayerError(playerId) ==
    Err("OFFER_NOT_FOUND_FOR_PLAYER", <<"Offer not found for player: ", playerId>>, 404)
ApiError(message, statusCode) ==
    Err("API_ERROR", message, IF statusCode = None \/ statusCode = Some(0) THEN 502 ELSE statusCode[1])
NoSharpOutcomesError(sharps) ==
    Err("NO_SHARP_OUTCOMES", <<"No sharp outcomes found for sharps: ">> \o sharps, 422)
TargetOutcomeNotFoundError(targetBook) ==
    Err("TARGET_OUTCOME_NOT_FOUND", <<"Target outcome not found for book: ", targetBook>>, 404)
TargetOutcomeNotCompleteError(targetBook) ==
    Err("ONE_SIDED_MARKET",
        <<"One-sided market found for: ", "Target outcome not complete for book: ", targetBook>>, 409)
DevigError(message) == Err("DEVIG_ERROR", message, 422)
CalculationError(message, code) == Err(code, message, 500)

Ok(v) == [success |-> TRUE, value |-> v]
Fail(e) == [success |-> FALSE, error |-> e]


-----------------------------------------------------------------------------
(* String conversions of the JavaScript runtime, on the strings the model uses *)

NaN == None
isNaN(x) == x = NaN

\* parseFloat(o.line): lines are kept in tenths (5.5 is 55)
parseFloat(s) ==
    CASE s = "5.5" -> Some(55)
      [] s = "5.50" -> Some(55)
      [] s = "6.5" -> Some(65)
      [] OTHER -> NaN

\* parseInt(outcome.americanOdds)
parseInt(s) ==
    CASE s = "-122" -> Some(-122)
      [] s = "-120" -> Some(-120)
      [] s = "-110" -> Some(-110)
      [] s = "-108" -> Some(-108)
      [] s = "+100" -> Some(100)
      [] s = "+120" -> Some(120)
      [] OTHER -> NaN

\* Number.prototype.toString of a line kept in tenths
LineToString(line) ==
    CASE line = 55 -> "5.5"
      [] line = 65 -> "6.5"
      [] OTHER -> "?"

-----------------------------------------------------------------------------
(* Odds conversion utilities *)

americanToDecimal(american) ==
    IF american > 0 THEN RAdd(Rat(american, 100), RInt(1))
    ELSE RAdd(Rat(100, Abs(american)), RInt(1))

calculateEVPercentage(trueProb, decimalOdds) ==
    RMul(RSub(RMul(trueProb, decimalOdds), RInt(1)), RInt(100))

\* the division is JavaScript's: x / 0 is Infinity, -Infinity or (0 / 0) NaN, and
\* Math.max(0, .) of these is Infinity, 0 and NaN
calculateKellyFraction(trueProbability, decimalOdds) ==
    LET b == RSub(decimalOdds, RInt(1))
        p == trueProbability
        q == RSub(RInt(1), p)
        numerator == RSub(RMul(b, p), q)
    IN IF b.n # 0 THEN RMax(RInt(0), RDiv(numerator, b))
       ELSE IF numerator.n = 0 THEN NaN
       ELSE IF numerator.n > 0 THEN <<"Infinity">>
       ELSE RInt(0)

-----------------------------------------------------------------------------
(* Devigging engine.  `odds` of an outcome is kept in hundredths.          *)

\* the power method: Math.pow(p1, k) for the exponent k a floating-point
\* bisection stops at.  The loop runs at least once and k is each time the
\* midpoint of [min, max] with 1 <= min < max <= 10, so 1 + 9/2^20 <= k < 10 and
\* for 0 < p1 < 1 the result is a number below p1.  It is a function of
\* (p1, p2) alone and is kept as that term, told apart from every rational
devigPower(p1, p2) == [pow |-> p1, with |-> p2]

devigAdditive(p1, p2) ==
    LET overround == RSub(RAdd(p1, p2), RInt(1))
    IN RSub(p1, RDiv(overround, RInt(2)))

\* a Shin method that shares the margin in proportion to the implied probabilities
devigShinProportional(p1, p2) == RDiv(p1, RAdd(p1, p2))

devigShin(p1, p2) == devigAdditive(p1, p2)

devigMultiplicative(p1, p2) ==
    LET total == RAdd(p1, p2) IN RDiv(p1, total)

\* a skewed method that takes its share of the whole book, not of the margin
devigOsSkewedOfTotal(p1, p2, label) ==
    LET total == RAdd(p1, p2)
        weight == IF label = "Over" THEN Rat(65, 100) ELSE Rat(35, 100)
    IN RSub(p1, RMul(weight, total))

devigOsSkewed(p1, p2, label) ==
    LET total == RAdd(p1, p2)
        overround == RSub(total, RInt(1))
        weight == IF label = "Over" THEN Rat(65, 100) ELSE Rat(35, 100)
    IN RSub(p1, RMul(weight, overround))

\* devigOdds whose switch falls back to the multiplicative method
devigOddsDefaulting(outcomes, label, method) ==
    LET Devig(targetOutcome, oppositeOutcome) ==
            IF targetOutcome = None \/ oppositeOutcome = None
            THEN Fail(DevigError(<<"Incomplete market: Missing outcome for ", label, " or its opposite.">>))
            ELSE LET Apply(p1, p2) ==
                         IF p1.n = 0 \/ p2.n = 0
                         THEN Fail(DevigError(<<"Market data error: Implied probability cannot be zero.">>))
                         ELSE CASE method = "additive" -> Ok(devigAdditive(p1, p2))
                                [] method = "power" -> Ok(devigPower(p1, p2))
                                [] method = "os_skewed" -> Ok(devigOsSkewed(p1, p2, label))
                                [] method = "shin" -> Ok(devigShin(p1, p2))
                                [] OTHER -> Ok(devigMultiplicative(p1, p2))
                 IN Apply(Rat(targetOutcome[1].odds, 100), Rat(oppositeOutcome[1].odds, 100))
    IN Devig(Find(outcomes, {o \in SeqToSet(outcomes) : o.label = label}),
             Find(outcomes, {o \in SeqToSet(outcomes) : o.label # label}))

devigOdds(outcomes, label, method) ==
    LET Devig(targetOutcome, oppositeOutcome) ==
            IF targetOutcome = None \/ oppositeOutcome = None
            THEN Fail(DevigError(<<"Incomplete market: Missing outcome for ", label, " or its opposite.">>))
            ELSE LET Apply(p1, p2) ==
                         IF p1.n = 0 \/ p2.n = 0
                         THEN Fail(DevigError(<<"Market data error: Implied probability cannot be zero.">>))
                         ELSE CASE method = "additive" -> Ok(devigAdditive(p1, p2))
                                [] method = "power" -> Ok(devigPower(p1, p2))
                                [] method = "os_skewed" -> Ok(devigOsSkewed(p1, p2, label))
                                [] method = "shin" -> Ok(devigShin(p1, p2))
                                [] method = "multiplicative" -> Ok(devigMultiplicative(p1, p2))
                                [] OTHER -> Fail(DevigError(<<"Unsupported devigging method: ", method>>))
                 IN Apply(Rat(targetOutcome[1].odds, 100), Rat(oppositeOutcome[1].odds, 100))
    IN Devig(Find(outcomes, {o \in SeqToSet(outcomes) : o.label = label}),
             Find(outcomes, {o \in SeqToSet(outcomes) : o.label # label}))

-----------------------------------------------------------------------------
(* Market resolution *)

findSpecificOffer(offers, playerId) ==
    LET offer == Find(offers, {o \in SeqToSet(offers) :
                                  o.participants # <<>> /\ o.participants[1].id = playerId})
    IN IF offer = None THEN Fail(OfferNotFoundForPlayerError(playerId)) ELSE Ok(offer[1])

hasCompleteMarket(outcomes, sportsbookCode) ==
    LET relevantOutcomes == {o \in SeqToSet(outcomes) : o.sportsbookCode = sportsbookCode}
        hasOver == \E o \in relevantOutcomes : o.label = "Over"
        hasUnder == \E o \in relevantOutcomes : o.label = "Under"
    IN hasOver /\ hasUnder

RECURSIVE Codes(_)
Codes(outcomes) ==
    IF outcomes = <<>> THEN <<>> ELSE <<Head(outcomes).sportsbookCode>> \o Codes(Tail(outcomes))

\* findAvailableSharpBooks that reports no failure when no book qualifies
findAvailableSharpBooksLenient(allOutcomes, sharps) ==
    Ok(Unique(Codes(Filter(allOutcomes,
                           {o \in SeqToSet(allOutcomes) :
                               o.sportsbookCode \in SeqToSet(sharps)
                               /\ hasCompleteMarket(allOutcomes, o.sportsbookCode)}))))

findAvailableSharpBooks(allOutcomes, sharps) ==
    LET all == SeqToSet(allOutcomes)
        availableSharps ==
            Codes(Filter(Filter(allOutcomes, {o \in all : o.sportsbookCode \in SeqToSet(sharps)}),
                         {o \in all : hasCompleteMarket(allOutcomes, o.sportsbookCode)}))
        uniqueAvailableSharps == Unique(availableSharps)
    IN IF Len(uniqueAvailableSharps) = 0 THEN Fail(NoSharpOutcomesError(sharps))
       ELSE Ok(uniqueAvailableSharps)

\* findTargetOutcomes without the test of the number of matches
findTargetOutcomesAnyCount(outcomes, targetBook, line) ==
    LET all == SeqToSet(outcomes)
        ofBook == Filter(outcomes, {o \in all : o.sportsbookCode = targetBook})
        targetOutcomes == IF line # None
                          THEN Filter(ofBook, {o \in all : parseFloat(o.line) = line})
                          ELSE ofBook
    IN IF Len(targetOutcomes) = 0 THEN Fail(TargetOutcomeNotFoundError(targetBook))
       ELSE IF ~hasCompleteMarket(targetOutcomes, targetBook)
            THEN Fail(TargetOutcomeNotCompleteError(targetBook))
            ELSE Ok(targetOutcomes)

findTargetOutcomes(outcomes, targetBook, line) ==
    LET all == SeqToSet(outcomes)
        ofBook == Filter(outcomes, {o \in all : o.sportsbookCode = targetBook})
        targetOutcomes == IF line # None
                          THEN Filter(ofBook, {o \in all : parseFloat(o.line) = line})
                          ELSE ofBook
    IN IF Len(targetOutcomes) = 0 THEN Fail(TargetOutcomeNotFoundError(targetBook))
       ELSE IF ~hasCompleteMarket(targetOutcomes, targetBook) \/ Len(targetOutcomes) # 2
            THEN Fail(TargetOutcomeNotCompleteError(targetBook))
            ELSE Ok(targetOutcomes)

extractAmericanOdds(outcomes, side) ==
    LET Extract(outcome) ==
            IF outcome = None
            THEN Fail(CalculationError(<<"Target Book side missing">>, "TARGET_BOOK_SIDE_MISSING"))
            ELSE IF isNaN(parseInt(outcome[1].americanOdds))
                 THEN Fail(CalculationError(<<"Invalid American odds: ", outcome[1].americanOdds>>,
                                            "INVALID_ODDS"))
                 ELSE Ok(parseInt(outcome[1].americanOdds)[1])
    IN Extract(Find(outcomes, {o \in SeqToSet(outcomes) : o.label = side}))

\* the pass that counts a book whether or not its devig succeeded
AddDevigCountingAll(acc, devigResult) ==
    IF devigResult.success
    THEN [sum |-> RAdd(acc.sum, devigResult.value), n |-> acc.n + 1]
    ELSE [sum |-> acc.sum, n |-> acc.n + 1]

\* one pass of the loop of calculateAverageTrueProbability: acc is [sum, n]
AddDevig(acc, devigResult) ==
    IF devigResult.success
    THEN [sum |-> RAdd(acc.sum, devigResult.value), n |-> acc.n + 1]
    ELSE acc

RECURSIVE SumDevig(_, _, _, _, _)
\* the loop of calculateAverageTrueProbability over the sharp books from `codes` on
SumDevig(pool, codes, label, method, acc) ==
    IF codes = <<>> THEN acc
    ELSE SumDevig(pool, Tail(codes), label, method,
                  AddDevig(acc, devigOdds(Filter(pool, {o \in SeqToSet(pool) :
                                                           o.sportsbookCode = Head(codes)}),
                                          label, method)))

calculateAverageTrueProbability(sharpOutcomesPool, sharpBookCodes, label, method) ==
    LET Average(acc) ==
            IF acc.n = 0
            THEN Fail(DevigError(<<"No sharp books provided valid two-sided probability data.">>))
            ELSE Ok(RDiv(acc.sum, RInt(acc.n)))
    IN Average(SumDevig(sharpOutcomesPool, sharpBookCodes, label, method,
                        [sum |-> RInt(0), n |-> 0]))

RECURSIVE BestOf(_, _)
\* highest American odds, the first one on ties
BestOf(cands, best) ==
    IF cands = <<>> THEN best
    ELSE IF parseInt(Head(cands).americanOdds)[1] > parseInt(best.americanOdds)[1]
         THEN BestOf(Tail(cands), Head(cands))
         ELSE BestOf(Tail(cands), best)

findBestOddsAcrossBooks(outcomes, line, side) ==
    LET Pick(cands) ==
            IF cands = <<>>
            THEN Fail(CalculationError(<<"No outcomes found for line ", LineToString(line), side>>,
                                       "NO_OUTCOMES_FOUND"))
            ELSE LET Quote(b) == Ok([sportsbookCode |-> b.sportsbookCode,
                                     americanOdds |-> parseInt(b.americanOdds)[1]])
                 IN Quote(BestOf(Tail(cands), Head(cands)))
    IN Pick(Filter(outcomes, {o \in SeqToSet(outcomes) :
                                 parseFloat(o.line) = Some(line) /\ o.label = side
                                 /\ ~isNaN(parseInt(o.americanOdds))}))

kellySizing(trueProbability, targetDecimalOdds, expectedValue, bankroll) ==
    IF bankroll = None THEN None
    ELSE LET Size(full) ==
                 LET Bet(quarter, recommendedBet) ==
                         Some([full |-> full, quarter |-> quarter,
                               recommendedBet |-> recommendedBet,
                               expectedProfit |-> RMul(recommendedBet, RDiv(expectedValue, RInt(100))),
                               bankroll |-> bankroll[1]])
                 IN Bet(RMul(full, Rat(25, 100)), RMul(RInt(bankroll[1]), RMul(full, Rat(25, 100))))
         IN Size(calculateKellyFraction(trueProbability, targetDecimalOdds))

\* the response built at the end of calculateEVFromOffer
EVResponse(offer, req, sharpBookCodes, targetAmericanOdds, trueProbability, impliedProbability, targetDecimalOdds, expectedValue, bestAvailableOdds) ==
    LET Named(found) ==
            [player |-> IF found = None THEN "Unknown Player" ELSE found[1].name,
             market |-> offer.offerName,
             line |-> req.line,
             side |-> req.side,
             targetBook |-> req.targetBook,
             targetOdds |-> targetAmericanOdds,
             trueProbability |-> trueProbability,
             impliedProbability |-> impliedProbability,
             expectedValue |-> expectedValue,
             sharpsUsed |-> sharpBookCodes,
             bestAvailableOdds |-> bestAvailableOdds,
             kelly |-> kellySizing(trueProbability, targetDecimalOdds, expectedValue, req.bankroll)]
    IN Named(Find(offer.participants, {p \in SeqToSet(offer.participants) : p.id = req.playerId}))

calculateEVFromOffer(offer, req) ==
    Only({
     Only({ IF ~sharpBooksResult.success THEN sharpBooksResult ELSE
      Only({ IF ~targetOutcomesResult.success THEN targetOutcomesResult ELSE
       Only({ IF ~targetAmericanOddsResult.success THEN targetAmericanOddsResult ELSE
        Only({ IF ~trueProbResult.success THEN trueProbResult ELSE
         Only({ IF ~impliedProbResult.success THEN impliedProbResult ELSE
          Only({
           Only({ IF ~bestOddsResult.success THEN bestOddsResult ELSE
                  Ok(EVResponse(offer, req, sharpBooksResult.value,
                                targetAmericanOddsResult.value,
                                trueProbResult.value, impliedProbResult.value,
                                targetDecimalOdds,
                                calculateEVPercentage(trueProbResult.value, targetDecimalOdds),
                                bestOddsResult.value))
             : bestOddsResult \in {findBestOddsAcrossBooks(allOutcomes, req.line, req.side)} })
            : targetDecimalOdds \in {americanToDecimal(targetAmericanOddsResult.value)} })
           : impliedProbResult \in
                 {devigOdds(targetOutcomesResult.value, req.side, req.devigMethod)} })
          : trueProbResult \in
                {calculateAverageTrueProbability(
                     Filter(allOutcomes, {o \in SeqToSet(allOutcomes) :
                                o.sportsbookCode \in SeqToSet(sharpBooksResult.value)}),
                     sharpBooksResult.value, req.side, req.devigMethod)} })
         : targetAmericanOddsResult \in
               {extractAmericanOdds(targetOutcomesResult.value, req.side)} })
        : targetOutcomesResult \in
              {findTargetOutcomes(allOutcomes, req.targetBook, Some(req.line))} })
       : sharpBooksResult \in {findAvailableSharpBooks(allOutcomes, req.sharps)} })
      : allOutcomes \in {FlatMap([i \in 1..Len(offer.sides) |-> offer.sides[i].outcomes])} })

-----------------------------------------------------------------------------
(* The market data the upstream API serves in this model *)

Outcome(book, label, line, odds, american) ==
    [sportsbookCode |-> book, label |-> label, line |-> line, odds |-> odds,
     americanOdds |-> american]

\* the market of participant pA; `pin` is PINNACLE's Over quote, which moves between versions
OfferA(pin) ==
    [offerName |-> "Points",
     participants |-> << [id |-> "pA", name |-> "Player A"] >>,
     sides |-> <<
        [label |-> "Over",
         outcomes |-> << Outcome("PIN", "Over", "5.5", pin, "-122"),
                         Outcome("CIR", "Over", "5.5", 0, "-108"),
                         Outcome("DK", "Over", "5.50", 50, "+100"),
                         Outcome("DK", "Over", "6.5", 40, "+120") >>],
        [label |-> "Under",
         outcomes |-> << Outcome("PIN", "Under", "5.5", 100 - pin + 4, "+100"),
                         Outcome("CIR", "Under", "5.5", 52, "-110"),
                         Outcome("DK", "Under", "5.5", 55, "-120") >>] >>]

\* an offer without participants: never matched, never cached
OfferAnon ==
    [offerName |-> "Team total", participants |-> <<>>, sides |-> <<>>]

\* the market of participant pA when PINNACLE and DK each quote two lines, FD
\* quotes its Over at an implied probability of 0 and MGM quotes its Over at 0
\* with American odds that are not a number
OfferLadder ==
    [offerName |-> "Points",
     participants |-> << [id |-> "pA", name |-> "Player A"] >>,
     sides |-> <<
        [label |-> "Over",
         outcomes |-> << Outcome("PIN", "Over", "5.5", 55, "-122"),
                         Outcome("PIN", "Over", "6.5", 40, "+120"),
                         Outcome("DK", "Over", "5.5", 50, "+100"),
                         Outcome("DK", "Over", "6.5", 40, "+120"),
                         Outcome("FD", "Over", "5.5", 0, "-110"),
                         Outcome("MGM", "Over", "5.5", 0, "EVEN") >>],
        [label |-> "Under",
         outcomes |-> << Outcome("PIN", "Under", "5.5", 49, "+100"),
                         Outcome("PIN", "Under", "6.5", 64, "-120"),
                         Outcome("DK", "Under", "5.5", 55, "-120"),
                         Outcome("DK", "Under", "6.5", 65, "-122"),
                         Outcome("FD", "Under", "5.5", 52, "-110"),
                         Outcome("MGM", "Under", "5.5", 52, "-110") >>] >>]

PayloadV1 == << OfferAnon, OfferA(55) >>
PayloadV2 == << OfferAnon, OfferA(60) >>


-----------------------------------------------------------------------------
(* Strings of Redis keys: sequences of tokens *)

\* the characters of a string, cut into tokens at its colons; the other
\* identifiers of this model are single tokens
Chars(str) ==
    CASE str = "pA:q" -> <<"pA", ":", "q">>
      [] str = "o1:pA" -> <<"o1", ":", "pA">>
      [] OTHER -> <<str>>

RECURSIVE Join(_, _)
\* Array.prototype.join over token sequences
Join(parts, sep) ==
    IF parts = <<>> THEN <<>>
    ELSE IF Len(parts) = 1 THEN Head(parts)
    ELSE Head(parts) \o <<sep>> \o Join(Tail(parts), sep)

\* position of a sportsbook code in the UTF-16 order Array.prototype.sort() uses
CodeRank(code) ==
    CASE code = "CIR" -> 1
      [] code = "DK" -> 2
      [] code = "FD" -> 3
      [] code = "PIN" -> 4
      [] OTHER -> 5

RECURSIVE Insert(_, _)
Insert(x, sorted) ==
    IF sorted = <<>> THEN <<x>>
    ELSE IF CodeRank(x) <= CodeRank(Head(sorted)) THEN <<x>> \o sorted
    ELSE <<Head(sorted)>> \o Insert(x, Tail(sorted))

RECURSIVE Sort(_)
\* [...arr].sort()
Sort(arr) == IF arr = <<>> THEN <<>> ELSE Insert(Head(arr), Sort(Tail(arr)))

IsPrefix(p, k) == Len(p) <= Len(k) /\ SubSeq(k, 1, Len(p)) = p

API_CACHE_PREFIX == <<"oddsshopper:offers:">>
API_HASH_PREFIX == <<"oddsshopper:hash:">>
EV_CACHE_PREFIX == <<"ev:calc:">>

OfferCacheKey(offerId, playerId) == API_CACHE_PREFIX \o Chars(offerId) \o <<":">> \o Chars(playerId)
OfferHashKey(offerId, playerId) == API_HASH_PREFIX \o Chars(offerId) \o <<":">> \o Chars(playerId)

generateEVCacheKey(req) ==
    LET sortedSharps == Join([i \in 1..Len(req.sharps) |-> Chars(Sort(req.sharps)[i])], ",")
        keyParts == << Chars(req.offerId),
                       Chars(req.playerId),
                       Chars(LineToString(req.line)),
                       Chars(req.side),
                       Chars(req.targetBook),
                       sortedSharps,
                       Chars(req.devigMethod) >>
    IN EV_CACHE_PREFIX \o Join(keyParts, ":")

\* Bun.hash(JSON.stringify(data)).toString(16): a function of the content alone
generateOfferHash(data) == [hashOf |-> data]

\* JSON.stringify / JSON.parse of the finite values stored
JSONstringify(v) == [json |-> v]
JSONparse(str) == str.json

\* CalculateEVResponseSchema.safeParse(...).success: the required keys are present
ResponseKeys ==
    {"player", "market", "line", "side", "targetBook", "targetOdds", "trueProbability",
     "impliedProbability", "expectedValue", "sharpsUsed", "bestAvailableOdds"}
CalculateEVResponseSchemaOk(v) == ResponseKeys \subseteq DOMAIN v

-----------------------------------------------------------------------------
(* The Redis connection.  A world w carries the keyspace, the client module *)
(* state and the number of commands issued so far in the current call; the  *)
(* commands whose number is in F reject.  Every function returns the world  *)
(* it leaves, its value and whether it threw.                               *)

Ret(w, v) == [w |-> w, val |-> v, threw |-> FALSE]
Thrown(w) == [w |-> w, val |-> None, threw |-> TRUE]

\* one more command issued
Cmd(w) == [w EXCEPT !.n = @ + 1]
\* the next command rejects
Rejects(w, F) == (w.n + 1) \in F

getRedisClient(w) ==
    IF ~w.avail THEN Ret(w, FALSE)
    ELSE IF ~w.client
         THEN IF ~env.REDIS_URL THEN Ret([w EXCEPT !.avail = FALSE], FALSE)
              ELSE IF ~env.bun THEN Ret([w EXCEPT !.avail = FALSE], FALSE)
              ELSE Ret([w EXCEPT !.client = TRUE], TRUE)
         ELSE Ret(w, TRUE)

\* getCachedEVResult without its try/catch: a rejected GET escapes
getCachedEVResultUncaught(w0, F, req) ==
    LET Read(c, key) ==
            IF ~c.val THEN Ret(c.w, None)
            ELSE IF Rejects(c.w, F) THEN Thrown(Cmd(c.w))
            ELSE IF key \notin DOMAIN c.w.db THEN Ret(Cmd(c.w), None)
            ELSE Ret(Cmd(c.w), Some(JSONparse(c.w.db[key])))
    IN Read(getRedisClient(w0), generateEVCacheKey(req))

\* getCachedEVResult that drops what it read
getCachedEVResultMiss(w0, F, req) ==
    LET Read(c) == IF ~c.val THEN Ret(c.w, None) ELSE Ret(Cmd(c.w), None)
    IN Read(getRedisClient(w0))

getCachedEVResult(w0, F, req) ==
    LET Read(c, key) ==
            IF ~c.val THEN Ret(c.w, None)
            ELSE IF Rejects(c.w, F) THEN Ret(Cmd(c.w), None)          \* catch: logged, null
            ELSE IF key \notin DOMAIN c.w.db THEN Ret(Cmd(c.w), None)
            ELSE LET Parsed(parsed) ==
                         IF CalculateEVResponseSchemaOk(parsed) THEN Ret(Cmd(c.w), Some(parsed))
                         ELSE Ret(Cmd(c.w), None)
                 IN Parsed(JSONparse(c.w.db[key]))
    IN Read(getRedisClient(w0), generateEVCacheKey(req))

\* setCachedEVResult without its try/catch: a rejected SET escapes
setCachedEVResultUncaught(w0, F, req, result) ==
    LET Write(c, key) ==
            IF ~c.val THEN Ret(c.w, None)
            ELSE IF Rejects(c.w, F) THEN Thrown(Cmd(c.w))
            ELSE Ret(Cmd(Cmd([c.w EXCEPT !.db = Put(@, key, JSONstringify(result))])), None)
    IN Write(getRedisClient(w0), generateEVCacheKey(req))

\* setCachedEVResult that signs the entry without the side of the request
setCachedEVResultNoSide(w0, F, req, result) ==
    LET Write(c, key) ==
            IF ~c.val THEN Ret(c.w, None)
            ELSE IF Rejects(c.w, F) THEN Ret(Cmd(c.w), None)
            ELSE Ret(Cmd(Cmd([c.w EXCEPT !.db = Put(@, key, JSONstringify(result))])), None)
    IN Write(getRedisClient(w0), generateEVCacheKey([req EXCEPT !.side = "Over"]))

setCachedEVResult(w0, F, req, result) ==
    LET Write(c, key) ==
            IF ~c.val THEN Ret(c.w, None)
            ELSE IF Rejects(c.w, F) THEN Ret(Cmd(c.w), None)          \* client.set rejects: caught
            \* client.set, then client.expire, caught if it rejects
            ELSE Ret(Cmd(Cmd([c.w EXCEPT !.db = Put(@, key, JSONstringify(result))])), None)
    IN Write(getRedisClient(w0), generateEVCacheKey(req))

RECURSIVE SetToSeq(_)
\* the keys a SCAN returns, in one of the orders it may return them
SetToSeq(S) == IF S = {} THEN <<>> ELSE LET x == CHOOSE y \in S : TRUE IN <<x>> \o SetToSeq(S \ {x})

RECURSIVE DelEach(_, _, _)
\* for (const key of keys) await client.del(key): stops at the first rejection
DelEach(w, F, keys) ==
    IF keys = <<>> THEN Ret(w, None)
    ELSE IF Rejects(w, F) THEN Thrown(Cmd(w))
    ELSE DelEach([Cmd(w) EXCEPT !.db = Del(@, Head(keys))], F, Tail(keys))

invalidateEVCacheForOffer(w0, F, offerId, playerId) ==
    LET pattern == EV_CACHE_PREFIX \o Chars(offerId) \o <<":">> \o Chars(playerId) \o <<":">>
        Scan(c) ==
            IF ~c.val THEN Ret(c.w, 0)
            ELSE IF Rejects(c.w, F) THEN Ret(Cmd(c.w), 0)             \* client.scan rejects: caught
            ELSE LET Deleted(d) ==                                    \* a rejected del: caught
                         Ret(d.w, Cardinality((DOMAIN c.w.db) \ (DOMAIN d.w.db)))
                 IN Deleted(DelEach(Cmd(c.w), F,
                                    SetToSeq({k \in DOMAIN c.w.db : IsPrefix(pattern, k)})))
    IN Scan(getRedisClient(w0))

setCachedOfferData(w0, F, offerId, playerId, data) ==
    LET cacheKey == OfferCacheKey(offerId, playerId)
        hashKey == OfferHashKey(offerId, playerId)
        newHash == generateOfferHash(data)
        Write(c) ==
            IF ~c.val THEN Ret(c.w, None)
            ELSE IF Rejects(c.w, F) THEN Ret(Cmd(c.w), None)          \* client.get(hashKey) rejects
            ELSE
            LET AfterInvalidate(w1) ==
                    IF Rejects(w1, F) THEN Ret(Cmd(w1), None)         \* set(cacheKey) rejects
                    ELSE
                    LET AfterData(w2) ==
                            IF Rejects(w2, F) THEN Ret(Cmd(w2), None) \* expire(cacheKey) rejects
                            ELSE
                            LET AfterExpire(w3) ==
                                    IF Rejects(w3, F) THEN Ret(Cmd(w3), None) \* set(hashKey) rejects
                                    \* set(hashKey), then expire(hashKey), caught if it rejects
                                    ELSE Ret(Cmd([Cmd(w3) EXCEPT !.db = Put(@, hashKey, newHash)]), None)
                            IN AfterExpire(Cmd(w2))
                    IN AfterData([Cmd(w1) EXCEPT !.db = Put(@, cacheKey, JSONstringify(data))])
            \* if (oldHash && oldHash !== newHash) await invalidateEVCacheForOffer(...)
            IN AfterInvalidate(IF hashKey \in DOMAIN c.w.db /\ c.w.db[hashKey] # newHash
                               THEN invalidateEVCacheForOffer(Cmd(c.w), F, offerId, playerId).w
                               ELSE Cmd(c.w))
    IN Write(getRedisClient(w0))

RECURSIVE setCachedOfferDataBatch(_, _, _, _)
setCachedOfferDataBatch(w, F, offerId, offers) ==
    IF offers = <<>> THEN Ret(w, None)
    ELSE LET Rest(r) ==
                 IF r.threw THEN r ELSE setCachedOfferDataBatch(r.w, F, offerId, Tail(offers))
         IN Rest(IF Head(offers).participants # <<>> /\ Head(offers).participants[1].id # ""
                 THEN setCachedOfferData(w, F, offerId, Head(offers).participants[1].id, Head(offers))
                 ELSE Ret(w, None))


-----------------------------------------------------------------------------
(* Upstream fetch.  `resp` is what the upstream does on this round trip:    *)
(*   kind "throw"     fetch() or response.json() rejects                    *)
(*   kind "http"      a response that is not ok, with its status            *)
(*   kind "nonArray"  200 with a JSON body that is not an array             *)
(*   kind "badSchema" 200 with an array that fails DataSchema               *)
(*   kind "ok"        200 with the array `offers`                           *)

\* fetchFromAPI without DataSchema.safeParse: whatever array came is returned
fetchFromAPINoSchema(offerId, resp) ==
    CASE resp.kind = "throw" ->
            Fail(ApiError(<<"Network or parsing failure: ", "fetch failed">>, None))
      [] resp.kind = "http" ->
            IF resp.status = 404 THEN Fail(OfferNotFoundError(offerId))
            ELSE Fail(ApiError(<<"Upstream error: ", "statusText">>, Some(resp.status)))
      [] resp.kind = "nonArray" -> Fail(OfferNotFoundError(offerId))
      [] OTHER -> Ok(resp.offers)

fetchFromAPI(offerId, resp) ==
    CASE resp.kind = "throw" ->
            Fail(ApiError(<<"Network or parsing failure: ", "fetch failed">>, None))
      [] resp.kind = "http" ->
            IF resp.status = 404 THEN Fail(OfferNotFoundError(offerId))
            ELSE Fail(ApiError(<<"Upstream error: ", "statusText">>, Some(resp.status)))
      [] resp.kind = "nonArray" -> Fail(OfferNotFoundError(offerId))
      [] resp.kind = "badSchema" ->
            Fail(ApiError(<<"Upstream error: ", "zod issues">>, Some(resp.status)))
      [] OTHER -> Ok(resp.offers)

fetchOddsShopperData(w, F, offerId, options, resp) ==
    LET Fetched(result) ==
            IF result.success /\ ~options.skipCache
            THEN LET Cached(c) == IF c.threw THEN Thrown(c.w) ELSE Ret(c.w, result)
                 IN Cached(setCachedOfferDataBatch(w, F, offerId, result.value))
            ELSE Ret(w, result)
    IN Fetched(fetchFromAPI(offerId, resp))

-----------------------------------------------------------------------------
(* Orchestrators.  Besides the value returned, each reports `steps`: which  *)
(* of its steps ran (observation only).                                     *)

\* the lookup of the result cache could not be answered by Redis
LookupProblem(w, F) ==
    LET Asked(c) == ~c.val \/ Rejects(c.w, F) IN Asked(getRedisClient(w))

Steps(lookup, problem, resolved, computed, stored) ==
    [lookup |-> lookup, problem |-> problem, resolved |-> resolved,
     computed |-> computed, stored |-> stored]

Done(w, v, fetches, steps) ==
    [w |-> w, val |-> v, threw |-> FALSE, fetches |-> fetches, steps |-> steps]
Raised(w, fetches, steps) ==
    [w |-> w, val |-> None, threw |-> TRUE, fetches |-> fetches, steps |-> steps]

\* the lookup without the skipCache test
cachedLookupAlways(w, F, req, options) == getCachedEVResult(w, F, req)

\* if (!options.skipCache) { cached = await getCachedEVResult(req) ... }
cachedLookup(w, F, req, options) ==
    IF ~options.skipCache THEN getCachedEVResult(w, F, req) ELSE Ret(w, None)

calculateEV(w0, F, req, options, resp) ==
    LET Looked(g, lookup, problem) ==
        IF g.threw THEN Raised(g.w, 0, <<Steps("threw", problem, FALSE, FALSE, FALSE)>>)
        ELSE IF g.val # None
        THEN Done(g.w, Ok(g.val[1]), 0, <<Steps("hit", problem, FALSE, FALSE, FALSE)>>)
        ELSE
        LET Fetched(dataFetchResult) ==
            IF dataFetchResult.threw
            THEN Raised(dataFetchResult.w, 1, <<Steps(lookup, problem, FALSE, FALSE, FALSE)>>)
            ELSE IF ~dataFetchResult.val.success
            THEN Done(dataFetchResult.w, dataFetchResult.val, 1,
                      <<Steps(lookup, problem, FALSE, FALSE, FALSE)>>)
            ELSE
            LET Resolved(offerResult) ==
                IF ~offerResult.success
                THEN Done(dataFetchResult.w, offerResult, 1,
                          <<Steps(lookup, problem, TRUE, FALSE, FALSE)>>)
                ELSE
                LET Computed(result) ==
                    IF result.success
                    THEN LET Stored(c) ==
                                 IF c.threw
                                 THEN Raised(c.w, 1, <<Steps(lookup, problem, TRUE, TRUE, TRUE)>>)
                                 ELSE Done(c.w, result, 1, <<Steps(lookup, problem, TRUE, TRUE, TRUE)>>)
                         IN Stored(setCachedEVResult(dataFetchResult.w, F, req, result.value))
                    ELSE Done(dataFetchResult.w, result, 1,
                              <<Steps(lookup, problem, TRUE, TRUE, FALSE)>>)
                IN Computed(calculateEVFromOffer(offerResult.value, req))
            IN Resolved(findSpecificOffer(dataFetchResult.val.value, req.playerId))
        IN Fetched(fetchOddsShopperData(g.w, F, req.offerId, options, resp))
    IN Looked(cachedLookup(w0, F, req, options),
              IF options.skipCache THEN "skipped" ELSE "miss",
              ~options.skipCache /\ LookupProblem(w0, F))

\* the entry numbered from 1
ItemOkOneBased(i, result) == [index |-> i + 1, success |-> TRUE, result |-> result]

ItemOk(i, result) == [index |-> i, success |-> TRUE, result |-> result]
\* the failure entry under one code for every failure
ItemErrOneCode(i, code, message) ==
    [index |-> i, success |-> FALSE, error |-> [code |-> "CALCULATION_ERROR", message |-> message]]

ItemErr(i, code, message) ==
    [index |-> i, success |-> FALSE, error |-> [code |-> code, message |-> message]]

createAllErrorsBatchResponse(offerId, itemCount, error) ==
    [offerId |-> offerId,
     totalItems |-> itemCount,
     successCount |-> 0,
     errorCount |-> itemCount,
     results |-> [k \in 1..itemCount |-> [index |-> k - 1, success |-> FALSE, error |-> error]]]

FullReq(offerId, item) ==
    [offerId |-> offerId,
     playerId |-> item.playerId,
     line |-> item.line,
     side |-> item.side,
     targetBook |-> item.targetBook,
     sharps |-> item.sharps,
     devigMethod |-> item.devigMethod,
     bankroll |-> item.bankroll]

\* one pass of the for loop of calculateEVBatch, for item i (counted from 0)
processItem(w, F, req, options, allOffers, i) ==
    LET Looked(fullReq, g, lookup, problem) ==
        LET Pass(w2, entry, lk, resolved, computed, stored) ==
                [w |-> w2, threw |-> FALSE, entry |-> entry,
                 step |-> Steps(lk, problem, resolved, computed, stored)
                          @@ [from |-> w.n, to |-> w2.n]]
            Stop(w2, lk, resolved, computed, stored) ==
                [w |-> w2, threw |-> TRUE, entry |-> None,
                 step |-> Steps(lk, problem, resolved, computed, stored)
                          @@ [from |-> w.n, to |-> w2.n]]
        IN IF g.threw THEN Stop(g.w, "threw", FALSE, FALSE, FALSE)
           ELSE IF g.val # None
           THEN Pass(g.w, ItemOk(i, g.val[1]), "hit", FALSE, FALSE, FALSE)
           ELSE
           LET Resolved(playerOfferResult) ==
               IF ~playerOfferResult.success
               THEN Pass(g.w, ItemErr(i, playerOfferResult.error.code,
                                      playerOfferResult.error.message),
                         lookup, TRUE, FALSE, FALSE)
               ELSE
               LET Computed(evResult) ==
                   IF evResult.success
                   THEN LET Stored(c) ==
                                IF c.threw THEN Stop(c.w, lookup, TRUE, TRUE, TRUE)
                                ELSE Pass(c.w, ItemOk(i, evResult.value), lookup, TRUE, TRUE, TRUE)
                        IN Stored(setCachedEVResult(g.w, F, fullReq, evResult.value))
                   ELSE Pass(g.w, ItemErr(i, evResult.error.code, evResult.error.message),
                             lookup, TRUE, TRUE, FALSE)
               IN Computed(calculateEVFromOffer(playerOfferResult.value, req.items[i + 1]))
           IN Resolved(findSpecificOffer(allOffers, req.items[i + 1].playerId))
    IN Looked(FullReq(req.offerId, req.items[i + 1]),
              cachedLookup(w, F, FullReq(req.offerId, req.items[i + 1]), options),
              IF options.skipCache THEN "skipped" ELSE "miss",
              ~options.skipCache /\ LookupProblem(w, F))

\* the tally that forgets the failures
TallySuccessOnly(acc, entry, step) ==
    [results |-> Append(acc.results, entry),
     successCount |-> acc.successCount + (IF entry.success THEN 1 ELSE 0),
     errorCount |-> acc.errorCount,
     steps |-> Append(acc.steps, step)]

\* results.push(...) together with successCount++ / errorCount++
Tally(acc, entry, step) ==
    [results |-> Append(acc.results, entry),
     successCount |-> acc.successCount + (IF entry.success THEN 1 ELSE 0),
     errorCount |-> acc.errorCount + (IF entry.success THEN 0 ELSE 1),
     steps |-> Append(acc.steps, step)]

RECURSIVE BatchLoopAbort(_, _, _, _, _, _, _)
\* the loop that gives up at the first failing item: the remaining items are
\* reported with that item's error
BatchLoopAbort(w, F, req, options, allOffers, i, acc) ==
    IF i >= Len(req.items)
    THEN [w |-> w, threw |-> FALSE, acc |-> acc]
    ELSE IF \E k \in DOMAIN acc.results : ~acc.results[k].success
    THEN BatchLoopAbort(w, F, req, options, allOffers, i + 1,
             Tally(acc,
                   [acc.results[CHOOSE k \in DOMAIN acc.results : ~acc.results[k].success]
                       EXCEPT !.index = i],
                   Steps("skipped", FALSE, FALSE, FALSE, FALSE) @@ [from |-> w.n, to |-> w.n]))
    ELSE LET Processed(p) ==
                 IF p.threw
                 THEN [w |-> p.w, threw |-> TRUE, acc |-> [acc EXCEPT !.steps = Append(@, p.step)]]
                 ELSE BatchLoopAbort(p.w, F, req, options, allOffers, i + 1,
                                     Tally(acc, p.entry, p.step))
         IN Processed(processItem(w, F, req, options, allOffers, i))

RECURSIVE BatchLoop(_, _, _, _, _, _, _)
\* for (let i = 0; i < req.items.length; i++) from item i on
BatchLoop(w, F, req, options, allOffers, i, acc) ==
    IF i >= Len(req.items)
    THEN [w |-> w, threw |-> FALSE, acc |-> acc]
    ELSE LET Processed(p) ==
                 IF p.threw
                 THEN [w |-> p.w, threw |-> TRUE, acc |-> [acc EXCEPT !.steps = Append(@, p.step)]]
                 ELSE BatchLoop(p.w, F, req, options, allOffers, i + 1, Tally(acc, p.entry, p.step))
         IN Processed(processItem(w, F, req, options, allOffers, i))

\* the BatchResult returned after the loop
BatchResponse(req, loop) ==
    IF loop.threw THEN Raised(loop.w, 1, loop.acc.steps)
    ELSE Done(loop.w,
              [offerId |-> req.offerId,
               totalItems |-> Len(req.items),
               successCount |-> loop.acc.successCount,
               errorCount |-> loop.acc.errorCount,
               results |-> loop.acc.results], 1, loop.acc.steps)

NoResults == [results |-> <<>>, successCount |-> 0, errorCount |-> 0, steps |-> <<>>]

\* calculateEVBatch without the test for an empty payload
calculateEVBatchNoEmptyTest(w0, F, req, options, resp) ==
    LET Fetched(offerResult) ==
            IF offerResult.threw THEN Raised(offerResult.w, 1, <<>>)
            ELSE IF ~offerResult.val.success
            THEN Done(offerResult.w,
                      createAllErrorsBatchResponse(req.offerId, Len(req.items),
                          [code |-> offerResult.val.error.code,
                           message |-> offerResult.val.error.message]), 1, <<>>)
            ELSE BatchResponse(req, BatchLoop(offerResult.w, F, req, options,
                                              offerResult.val.value, 0, NoResults))
    IN Fetched(fetchOddsShopperData(w0, F, req.offerId, options, resp))

calculateEVBatch(w0, F, req, options, resp) ==
    LET Fetched(offerResult) ==
            IF offerResult.threw THEN Raised(offerResult.w, 1, <<>>)
            ELSE IF ~offerResult.val.success
            THEN Done(offerResult.w,
                      createAllErrorsBatchResponse(req.offerId, Len(req.items),
                          [code |-> offerResult.val.error.code,
                           message |-> offerResult.val.error.message]), 1, <<>>)
            ELSE IF Len(offerResult.val.value) = 0
            THEN Done(offerResult.w,
                      createAllErrorsBatchResponse(req.offerId, Len(req.items),
                          [code |-> "NOT_FOUND", message |-> <<"Offer not found">>]), 1, <<>>)
            ELSE BatchResponse(req, BatchLoop(offerResult.w, F, req, options,
                                              offerResult.val.value, 0, NoResults))
    IN Fetched(fetchOddsShopperData(w0, F, req.offerId, options, resp))

-----------------------------------------------------------------------------
(* Inputs *)

Item(playerId, line, side, targetBook, sharps, devigMethod, bankroll) ==
    [playerId |-> playerId, line |-> line, side |-> side, targetBook |-> targetBook,
     sharps |-> sharps, devigMethod |-> devigMethod, bankroll |-> bankroll]

ItemOver  == Item("pA", 55, "Over", "DK", <<"PIN">>, "multiplicative", None)
ItemUnder == Item("pA", 55, "Under", "DK", <<"PIN", "CIR">>, "additive", None)
\* a participant the payload does not list
ItemNoPlayer == Item("pX", 55, "Over", "DK", <<"PIN">>, "multiplicative", None)
\* a line DK quotes on one side only
ItemOneSided == Item("pA", 65, "Over", "DK", <<"PIN">>, "multiplicative", None)

Items == {ItemOver, ItemUnder, ItemNoPlayer, ItemOneSided}

OfferId == "o1"

Requests == {FullReq(OfferId, it) : it \in Items}

\* items: z.array(...).min(1).max(10), explored up to MaxItems
BatchRequests ==
    {[offerId |-> OfferId, items |-> items] :
        items \in UNION {[1..n -> Items] : n \in 1..MaxItems}}

Options == {[skipCache |-> b] : b \in BOOLEAN}

Response(kind, status, offers) == [kind |-> kind, status |-> status, offers |-> offers]

Responses ==
    {Response("ok", 200, PayloadV1), Response("ok", 200, PayloadV2), Response("ok", 200, <<>>),
     Response("http", 404, <<>>), Response("http", 500, <<>>)}

\* the most Redis commands one call issues: the write of a changed offer
\* (get, scan, two del, set, expire, set, expire) and get, set, expire per item
MaxCmd == 8 + 3 * MaxItems

\* which Redis commands of a call reject: none, a single one, or all from one on
FaultSchedules ==
    {{}} \cup {{k} : k \in 1..MaxCmd} \cup {1..MaxCmd}

-----------------------------------------------------------------------------
(* The service *)

World == [db |-> redis, client |-> redisClient, avail |-> redisAvailable, n |-> 0]

\* a cache that is reachable and holds nothing
EmptyWorld == [db |-> EmptyStore, client |-> TRUE, avail |-> TRUE, n |-> 0]

Idle == [op |-> "none"]

Init ==
    /\ redis = EmptyStore
    /\ redisClient = FALSE
    /\ redisAvailable = TRUE
    /\ env \in {[REDIS_URL |-> TRUE, bun |-> TRUE],
                [REDIS_URL |-> FALSE, bun |-> TRUE],
                [REDIS_URL |-> TRUE, bun |-> FALSE]}
    /\ last = Idle

Called(op, req, options, resp, F, r) ==
    \* a schedule that names no command the call issues is the empty schedule
    /\ F = {} \/ \E k \in F : k <= r.w.n
    /\ redis' = r.w.db
    /\ redisClient' = r.w.client
    /\ redisAvailable' = r.w.avail
    /\ last' = [op |-> op, req |-> req, options |-> options, resp |-> resp, F |-> F,
                before |-> World, out |-> r.val, threw |-> r.threw,
                fetches |-> r.fetches, cmds |-> r.w.n, steps |-> r.steps]
    /\ UNCHANGED env

\* POST /calculate-ev
CalculateEV ==
    /\ last = Idle
    /\ \E req \in Requests, options \in Options, resp \in Responses, F \in FaultSchedules :
          Called("single", req, options, resp, F, calculateEV(World, F, req, options, resp))

\* POST /calculate-ev/batch
CalculateEVBatch ==
    /\ last = Idle
    /\ \E req \in BatchRequests, options \in Options, resp \in Responses, F \in FaultSchedules :
          Called("batch", req, options, resp, F, calculateEVBatch(World, F, req, options, resp))

\* the route sends its response
Respond ==
    /\ last # Idle
    /\ last' = Idle
    /\ UNCHANGED <<redis, redisClient, redisAvailable, env>>

\* Redis drops a key whose time to live has run out
ExpireKey ==
    /\ last = Idle
    /\ \E k \in DOMAIN redis : redis' = Del(redis, k)
    /\ UNCHANGED <<redisClient, redisAvailable, env, last>>

Next == CalculateEV \/ CalculateEVBatch \/ Respond \/ ExpireKey

Spec == Init /\ [][Next]_vars

-----------------------------------------------------------------------------
(* Properties of the orchestrators *)

BatchResultKeys == {"offerId", "totalItems", "successCount", "errorCount", "results"}

IsBatchResult(v) ==
    /\ DOMAIN v = BatchResultKeys
    /\ \A k \in DOMAIN v.results :
          LET e == v.results[k]
          IN IF e.success THEN DOMAIN e = {"index", "success", "result"}
             ELSE DOMAIN e = {"index", "success", "error"}

\* what the payload of this round trip gives for one request, no cache involved
FromPayload(req, resp) ==
    LET f == fetchFromAPI(req.offerId, resp)
    IN IF ~f.success THEN f
       ELSE LET o == findSpecificOffer(f.value, req.playerId)
            IN IF ~o.success THEN o ELSE calculateEVFromOffer(o.value, req)

\* the batch entry (index aside) that reports outcome r
Reports(entry, r) ==
    /\ entry.success = r.success
    /\ IF r.success THEN entry.result = r.value
       ELSE entry.error = [code |-> r.error.code, message |-> r.error.message]

\* item i (from 1) of the last batch, run alone against a reachable empty cache
Alone(i) ==
    calculateEVBatch(EmptyWorld, {}, [offerId |-> last.req.offerId, items |-> <<last.req.items[i]>>],
                     last.options, last.resp).val.results[1]

SameOutcome(e1, e2) == [e1 EXCEPT !.index = 0] = [e2 EXCEPT !.index = 0]

\* C1: calculateEVBatch returns a BatchResult envelope whatever the request and
\* whatever the upstream and the cache do; it never raises and never returns a
\* top-level failure.
C1_BatchAlwaysEnvelope ==
    last.op = "batch" => ~last.threw /\ IsBatchResult(last.out)

\* a batch during which every Redis command rejected, its fetch having succeeded
C1_Witness ==
    /\ last.op = "batch"
    /\ last.F = 1..MaxCmd
    /\ last.resp.kind = "ok"
    /\ Len(last.steps) = 2
    /\ last.steps[1].problem
    /\ IsBatchResult(last.out)

C3_SkipCacheRecomputes ==
    /\ last.op = "single" /\ last.options.skipCache =>
          /\ last.steps[1].lookup = "skipped"
          /\ last.fetches = 1
          /\ last.out = FromPayload(last.req, last.resp)
    /\ last.op = "batch" /\ last.options.skipCache =>
          /\ last.fetches = 1
          /\ \A i \in DOMAIN last.steps :
                /\ last.steps[i].lookup = "skipped"
                /\ Reports(last.out.results[i],
                           FromPayload(FullReq(last.req.offerId, last.req.items[i]), last.resp))

\* skip-cache while the cache holds another value under the signature
C3_Witness ==
    /\ last.op = "single"
    /\ last.options.skipCache
    /\ generateEVCacheKey(last.req) \in DOMAIN last.before.db
    /\ last.out.success
    /\ last.out.value # JSONparse(last.before.db[generateEVCacheKey(last.req)])

\* the lookup of the last single call was answered with a stored successful result
StoredAndRead ==
    /\ last.op = "single"
    /\ ~last.options.skipCache
    /\ ~last.steps[1].problem
    /\ generateEVCacheKey(last.req) \in DOMAIN last.before.db
    /\ CalculateEVResponseSchemaOk(JSONparse(last.before.db[generateEVCacheKey(last.req)]))

\* C4: a calculateEV call without skip-cache whose signature has a stored
\* successful result (not expired, not invalidated) returns exactly that result
\* and fetches nothing upstream.
C4_HitReturnsStored ==
    StoredAndRead =>
        /\ last.out = Ok(JSONparse(last.before.db[generateEVCacheKey(last.req)]))
        /\ last.fetches = 0

\* a hit on an entry that the upstream payload of the moment would not reproduce
C4_Witness ==
    /\ StoredAndRead
    /\ last.out # FromPayload(last.req, last.resp)

\* the world in which the last call ran its fetch, and the one the fetch left
AtFetch ==
    IF last.op = "single" THEN cachedLookup(last.before, last.F, last.req, last.options).w
    ELSE last.before
AfterFetch ==
    fetchOddsShopperData(AtFetch, last.F, last.req.offerId, last.options, last.resp).w

\* the result-cache keys of one offer and participant
ResultKeys(db, offerId, playerId) ==
    {k \in DOMAIN db :
        IsPrefix(EV_CACHE_PREFIX \o Chars(offerId) \o <<":">> \o Chars(playerId) \o <<":">>, k)}

\* the last call wrote offer `offer` of participant playerId over a different
\* stored hash, and the write ran to its end: the new hash is stored
WroteChangedOffer(offer, playerId) ==
    LET hashKey == OfferHashKey(last.req.offerId, playerId)
    IN /\ hashKey \in DOMAIN AtFetch.db
       /\ AtFetch.db[hashKey] # generateOfferHash(offer)
       /\ hashKey \in DOMAIN AfterFetch.db
       /\ AfterFetch.db[hashKey] = generateOfferHash(offer)

\* C5: when an offer is written to the offer cache over a stored hash that
\* differs from its own, no result-cache entry of that offer and participant
\* that existed before the write is left once the write has completed.
C5_ChangedOfferInvalidates ==
    (last.op # "none" /\ last.fetches = 1 /\ ~last.options.skipCache /\ last.resp.kind = "ok") =>
        \A k \in DOMAIN last.resp.offers :
            LET offer == last.resp.offers[k]
            IN Len(offer.participants) > 0 /\ WroteChangedOffer(offer, offer.participants[1].id) =>
                  ResultKeys(AtFetch.db, last.req.offerId, offer.participants[1].id)
                      \cap DOMAIN AfterFetch.db = {}

\* the shared fetch of the last batch failed or returned no offer
SharedFetchFailed ==
    /\ last.op = "batch"
    /\ LET f == fetchFromAPI(last.req.offerId, last.resp)
       IN ~f.success \/ Len(f.value) = 0

\* C6: when the shared fetch fails or returns zero offers, every entry is a
\* failure with one and the same code and message, and nothing is done per item:
\* no lookup, no resolution, no computation, no store.
C6_UniformFailure ==
    SharedFetchFailed =>
        /\ ~last.threw
        /\ Len(last.out.results) = Len(last.req.items)
        /\ \A i \in DOMAIN last.out.results :
              /\ ~last.out.results[i].success
              /\ last.out.results[i].error = last.out.results[1].error
        /\ last.steps = <<>>
        /\ last.cmds = 0
        /\ redis = last.before.db

\* an empty payload for a batch of two while the result cache holds entries
C6_Witness ==
    /\ SharedFetchFailed
    /\ last.resp.kind = "ok"
    /\ ~last.options.skipCache
    /\ Len(last.req.items) = 2
    /\ generateEVCacheKey(FullReq(last.req.offerId, last.req.items[1])) \in DOMAIN last.before.db
    /\ redisAvailable

\* the request without item j
WithoutItem(req, j) ==
    [req EXCEPT !.items = [k \in 1..(Len(req.items) - 1) |->
                              IF k < j THEN req.items[k] ELSE req.items[k + 1]]]

\* the fault schedule F with the commands numbered from+1..to taken out
WithoutCmds(F, from, to) ==
    {k \in F : k <= from} \cup {k - (to - from) : k \in {x \in F : x > to}}

\* C7: in a batch whose shared fetch succeeded no item is skipped, and the entry
\* of item i is what it is in the same batch without a failing item j: same
\* status, same value or error.
C7_FailureLeavesSiblings ==
    (last.op = "batch" /\ ~SharedFetchFailed /\ ~last.threw) =>
        /\ Len(last.out.results) = Len(last.req.items)
        /\ \A j \in DOMAIN last.out.results :
              (~last.out.results[j].success /\ Len(last.req.items) > 1) =>
                  LET other == calculateEVBatch(last.before,
                                   WithoutCmds(last.F, last.steps[j].from, last.steps[j].to),
                                   WithoutItem(last.req, j), last.options, last.resp).val
                  IN \A i \in DOMAIN last.out.results \ {j} :
                        SameOutcome(last.out.results[i],
                                    other.results[IF i < j THEN i ELSE i - 1])

\* a failing first item followed by an item that is computed and succeeds
C7_Witness ==
    /\ last.op = "batch"
    /\ ~SharedFetchFailed
    /\ Len(last.req.items) = 2
    /\ ~last.out.results[1].success
    /\ last.out.results[2].success
    /\ last.steps[2].computed
    /\ last.steps[1].to > last.steps[1].from
    /\ \E k \in last.F : k > last.steps[1].to

\* the value stored under the signature of item i when the batch looked it up:
\* there before the call, or stored by an earlier item of the batch
StoredFor(i) ==
    LET key == generateEVCacheKey(FullReq(last.req.offerId, last.req.items[i]))
    IN (IF key \in DOMAIN last.before.db THEN {JSONparse(last.before.db[key])} ELSE {})
       \cup {last.out.results[k].result :
                k \in {x \in 1..(i - 1) :
                          /\ last.steps[x].stored
                          /\ generateEVCacheKey(FullReq(last.req.offerId, last.req.items[x])) = key}}

\* C8: results has one entry per request item, and the entry at position i
\* carries index i and reports item i's outcome: the shared failure, the result
\* stored under item i's signature, or what the payload gives for item i.
C8_OneEntryPerItemInOrder ==
    (last.op = "batch" /\ ~last.threw) =>
        /\ Len(last.out.results) = Len(last.req.items)
        /\ \A i \in DOMAIN last.out.results :
              LET entry == last.out.results[i]
                  fullReq == FullReq(last.req.offerId, last.req.items[i])
              IN /\ entry.index = i - 1
                 /\ IF SharedFetchFailed
                    THEN ~entry.success
                    ELSE IF last.steps[i].lookup = "hit"
                    THEN entry.success /\ entry.result \in StoredFor(i)
                    ELSE Reports(entry, FromPayload(fullReq, last.resp))

\* a cache hit followed by a failure
C8_Witness ==
    /\ last.op = "batch"
    /\ Len(last.steps) = 2
    /\ last.steps[1].lookup = "hit"
    /\ ~last.out.results[2].success
    /\ last.req.items[1] # last.req.items[2]

\* C9: totalItems is the number of request items, successCount the number of
\* success entries, errorCount the number of failure entries, and the two counts
\* add up to totalItems.
C9_CountsAgree ==
    (last.op = "batch" /\ ~last.threw) =>
        LET results == last.out.results
        IN /\ last.out.totalItems = Len(last.req.items)
           /\ last.out.successCount = Cardinality({i \in DOMAIN results : results[i].success})
           /\ last.out.errorCount = Cardinality({i \in DOMAIN results : ~results[i].success})
           /\ last.out.successCount + last.out.errorCount = last.out.totalItems

\* one success and one failure
C9_Witness ==
    /\ last.op = "batch"
    /\ ~SharedFetchFailed
    /\ last.out.successCount = 1
    /\ last.out.errorCount = 1

\* the result cache held in a keyspace
ResultPart(db) ==
    [k \in {k \in DOMAIN db : IsPrefix(EV_CACHE_PREFIX, k)} |-> db[k]]

\* the result-cache keys that are new in `after` or hold another value than in `before`
Written(before, after) ==
    {k \in DOMAIN ResultPart(after) : k \notin DOMAIN before \/ before[k] # after[k]}

ContributingBooks(offer, req) ==
    {code \in SeqToSet(req.sharps) :
        devigOdds(Filter(FlatMap([i \in 1..Len(offer.sides) |-> offer.sides[i].outcomes]),
                         {o \in UNION {SeqToSet(offer.sides[i].outcomes) : i \in 1..Len(offer.sides)} :
                             o.sportsbookCode = code}),
                  req.side, req.devigMethod).success}

\* C16: in every successful result, sharpsUsed holds exactly the reference
\* books whose devig succeeded and entered the average; a book that passed the
\* completeness filter but failed to devig is not listed.
C16_SharpsUsedContributed ==
    (last.op = "single" /\ last.steps[1].computed /\ last.out.success) =>
        SeqToSet(last.out.value.sharpsUsed) =
            ContributingBooks(findSpecificOffer(last.resp.offers, last.req.playerId).value, last.req)

\* the same for the requests all of whose listed books devig
C16_ListedWhenAllDevig ==
    (last.op = "single" /\ last.steps[1].computed /\ last.out.success
     /\ last.req.sharps = <<"PIN">>) =>
        SeqToSet(last.out.value.sharpsUsed) =
            ContributingBooks(findSpecificOffer(last.resp.offers, last.req.playerId).value, last.req)

\* the hash stored for participant pA of the offer is the hash of the offer
\* data stored for that participant
HashMatchesOffer ==
    (OfferHashKey(OfferId, "pA") \in DOMAIN redis /\ OfferCacheKey(OfferId, "pA") \in DOMAIN redis)
        => redis[OfferHashKey(OfferId, "pA")]
               = generateOfferHash(JSONparse(redis[OfferCacheKey(OfferId, "pA")]))

\* C26: after any sequence of offer-cache writes, writes that fail partway
\* included, the hash stored for an (offer, participant) pair is the hash of the
\* offer data stored for that pair.
C26_HashMatchesStoredOffer == HashMatchesOffer

\* a batch whose shared fetch returned at least one offer, with every Redis
\* command answered
BatchOnOffers ==
    last.op = "batch" /\ ~last.threw /\ ~SharedFetchFailed /\ last.F = {}

\* what the single-item entry point returns for item i of the batch on the same
\* payload, started on the cache contents the batch started on
Single(i) ==
    calculateEV(last.before, {}, FullReq(last.req.offerId, last.req.items[i]),
                last.options, last.resp).val

\* the shared fetch of the batch deleted the result stored under item i's signature
InvalidatedFor(i) ==
    /\ generateEVCacheKey(FullReq(last.req.offerId, last.req.items[i])) \in DOMAIN last.before.db
    /\ generateEVCacheKey(FullReq(last.req.offerId, last.req.items[i])) \notin DOMAIN AfterFetch.db

-----------------------------------------------------------------------------
(* The result-cache signature on its own: two requests are drawn and signed *)

SharpLists == UNION {[1..n -> {"PIN", "CIR"}] : n \in 1..MaxSharps}

\* requests that differ in the reference-book list and the line, and requests
\* that differ in each component of the signature; ids are free strings, two of
\* them hold a colon
KeyRequests ==
    {FullReq(OfferId, Item("pA", line, "Over", "DK", sharps, "multiplicative", None)) :
        line \in {55, 65}, sharps \in SharpLists}
    \cup
    {FullReq(offerId, Item(playerId, line, side, targetBook, sharps, devigMethod, None)) :
        offerId \in {"o1", "o1:pA"}, playerId \in {"pA", "q", "pA:q"}, line \in {55, 65},
        side \in {"Over", "Under"}, targetBook \in {"DK", "PIN"},
        sharps \in {<<"PIN">>, <<"PIN", "CIR">>}, devigMethod \in {"multiplicative", "additive"}}

InitKey ==
    /\ redis = EmptyStore
    /\ redisClient = FALSE
    /\ redisAvailable = TRUE
    /\ env = [REDIS_URL |-> TRUE, bun |-> TRUE]
    /\ last \in {[op |-> "requests", a |-> a, b |-> b] : a \in KeyRequests, b \in KeyRequests}

SignRequests ==
    /\ last.op = "requests"
    /\ last' = [op |-> "signed", a |-> last.a, b |-> last.b,
                keyA |-> generateEVCacheKey(last.a), keyB |-> generateEVCacheKey(last.b)]
    /\ UNCHANGED <<redis, redisClient, redisAvailable, env>>

NextKey == SignRequests

SpecKey == InitKey /\ [][NextKey]_vars

\* C10: two requests that agree on offer, participant, line, side, target book
\* and devig method and whose reference-book lists hold the same set of codes,
\* in any order and with any repetition, have the same result-cache signature.
C10_SameSetSameKey ==
    (/\ last.op = "signed"
     /\ [last.a EXCEPT !.sharps = <<>>] = [last.b EXCEPT !.sharps = <<>>]
     /\ SeqToSet(last.a.sharps) = SeqToSet(last.b.sharps))
    => last.keyA = last.keyB

\* the signature of a request: its components, the reference books as a set
Signature(req) ==
    [offerId |-> req.offerId, playerId |-> req.playerId, line |-> req.line, side |-> req.side,
     targetBook |-> req.targetBook, sharps |-> SeqToSet(req.sharps),
     devigMethod |-> req.devigMethod]

\* C28: two requests that differ in a component of the signature (offer id,
\* participant id, line, side, target book, set of reference books, devig
\* method) never have the same result-cache key.
C28_DistinctSignaturesDistinctKeys ==
    (last.op = "signed" /\ Signature(last.a) # Signature(last.b))
        => last.keyA # last.keyB

\* the same for ids that hold no colon
C28_DistinctKeysOnPlainIds ==
    (/\ last.op = "signed" /\ Signature(last.a) # Signature(last.b)
     /\ {last.a.offerId, last.b.offerId} = {"o1"}
     /\ {last.a.playerId, last.b.playerId} \subseteq {"pA", "q"})
        => last.keyA # last.keyB

-----------------------------------------------------------------------------
(* Invalidation on its own: a result cache holding entries of several offers *)
(* and participants, and one invalidation for one pair                       *)

InvOffers == {"o1", "o2"}
\* participant ids are free strings of the payload: one of them holds a colon
InvPlayers == {"pA", "pB", "pA:q"}

InvRequests ==
    {FullReq(o, Item(p, 55, "Over", "DK", <<"PIN">>, "multiplicative", None)) :
        o \in InvOffers, p \in InvPlayers}

\* the keyspace after the results of the requests in S were stored
StoreOf(S) ==
    [k \in {generateEVCacheKey(r) : r \in S} |->
        JSONstringify([signature |-> CHOOSE r \in S : generateEVCacheKey(r) = k])]

InitInv ==
    /\ redis \in {StoreOf(S) : S \in SUBSET InvRequests}
    /\ redisClient = TRUE
    /\ redisAvailable = TRUE
    /\ env = [REDIS_URL |-> TRUE, bun |-> TRUE]
    /\ last = Idle

Invalidate ==
    /\ last = Idle
    /\ \E offerId \in InvOffers, playerId \in InvPlayers, F \in {{}, {1}, {2}, {3}} :
          /\ redis' = invalidateEVCacheForOffer(World, F, offerId, playerId).w.db
          /\ last' = [op |-> "invalidate", offerId |-> offerId, playerId |-> playerId,
                      F |-> F, before |-> redis,
                      deletedCount |-> invalidateEVCacheForOffer(World, F, offerId, playerId).val]
    /\ UNCHANGED <<redisClient, redisAvailable, env>>

NextInv == Invalidate

SpecInv == InitInv /\ [][NextInv]_vars

\* the result-cache entries an invalidation removed
Removed == {k \in DOMAIN ResultPart(last.before) : k \notin DOMAIN redis}

\* C12: an invalidation for one offer and participant deletes only result-cache
\* entries whose signature has that offer id and that participant id, and
\* leaves every other entry as it was.
C12_InvalidationIsSelective ==
    last.op = "invalidate" =>
        /\ \A k \in Removed :
              /\ JSONparse(last.before[k]).signature.offerId = last.offerId
              /\ JSONparse(last.before[k]).signature.playerId = last.playerId
        /\ \A k \in DOMAIN last.before \ Removed : redis[k] = last.before[k]

\* the same for participant ids that hold no colon
C12_SelectiveOnPlainIds ==
    (last.op = "invalidate" /\ \A k \in DOMAIN last.before :
                                  JSONparse(last.before[k]).signature.playerId # "pA:q") =>
        /\ \A k \in Removed :
              /\ JSONparse(last.before[k]).signature.offerId = last.offerId
              /\ JSONparse(last.before[k]).signature.playerId = last.playerId
        /\ \A k \in DOMAIN last.before \ Removed : redis[k] = last.before[k]

-----------------------------------------------------------------------------
(* The functions of the pipeline on their own: an input is drawn and the    *)
(* function is applied to it                                                *)

\* the longest outcome list drawn
MaxOutcomes == 3

\* devigMethod as the routes accept it
AcceptedMethods == {"multiplicative", "additive", "power", "shin", "osskeweded"}

\* the method names drawn: the accepted ones, the spellings of the engine and of
\* the shared schema, and a name nobody knows
MethodNames == AcceptedMethods \cup {"os_skewed", "osskewed", "bogus"}

\* quotes of one book at one line
BookOutcomes ==
    {Outcome("PIN", label, "5.5", odds, "-110") : label \in {"Over", "Under"}, odds \in {0, 45, 50, 55}}

DevigInputs ==
    {[op |-> "devigOdds", outcomes |-> outcomes, label |-> label, method |-> method] :
        outcomes \in UNION {[1..n -> BookOutcomes] : n \in 0..MaxOutcomes},
        label \in {"Over", "Under"},
        method \in MethodNames}

\* what one reference book quotes: both sides, the Over only, both sides with
\* the Under at odds 0, or nothing
QuotesOf(book, quotes, over, under) ==
    CASE quotes = "both" -> << Outcome(book, "Over", "5.5", over, "-110"),
                               Outcome(book, "Under", "5.5", under, "-110") >>
      [] quotes = "overOnly" -> << Outcome(book, "Over", "5.5", over, "-110") >>
      [] quotes = "zeroUnder" -> << Outcome(book, "Over", "5.5", over, "-110"),
                                    Outcome(book, "Under", "5.5", 0, "-110") >>
      [] OTHER -> <<>>

QuoteKinds == {"both", "overOnly", "zeroUnder", "none"}

\* the outcomes of the reference books PIN, CIR and FD, book by book
SharpPools ==
    {QuotesOf("PIN", a, 55, 49) \o QuotesOf("CIR", b, 52, 52) \o QuotesOf("FD", c, 60, 45) :
        a \in QuoteKinds, b \in QuoteKinds, c \in QuoteKinds}

\* lists of books as findAvailableSharpBooks returns them: no code twice
CodeLists ==
    {codes \in UNION {[1..n -> {"PIN", "CIR", "FD"}] : n \in 0..MaxSharps} :
        Cardinality(SeqToSet(codes)) = Len(codes)}

AverageInputs ==
    {[op |-> "average", pool |-> pool, codes |-> codes, label |-> label, method |-> method] :
        pool \in SharpPools, codes \in CodeLists, label \in {"Over", "Under"},
        method \in {"multiplicative", "additive", "bogus"}}

\* quotes of the target book DK and of another book, at two lines; "5.50" is
\* the line 5.5 written otherwise
LineOutcomes ==
    {Outcome(book, label, line, 50, "-110") :
        book \in {"DK", "PIN"}, label \in {"Over", "Under"}, line \in {"5.5", "5.50", "6.5"}}

\* the line argument: left out, 5.5 or 6.5 (in tenths)
TargetInputs ==
    {[op |-> "findTargetOutcomes", outcomes |-> outcomes, targetBook |-> "DK", line |-> line] :
        outcomes \in UNION {[1..n -> LineOutcomes] : n \in 0..MaxOutcomes},
        line \in {None, Some(55), Some(65)}}

\* everything the upstream can do on one round trip
AllResponses ==
    Responses \cup {Response("throw", 0, <<>>), Response("http", 503, <<>>),
                    Response("nonArray", 200, <<>>), Response("badSchema", 200, <<>>),
                    Response("ok", 200, << OfferAnon, OfferLadder >>)}

FetchInputs == {[op |-> "fetchFromAPI", offerId |-> OfferId, resp |-> resp] : resp \in AllResponses}

\* what the route of the single-item entry point sends for an orchestrator result
RouteResponse(r) ==
    IF r.threw THEN [status |-> 500, body |-> [error |-> <<"Internal server error">>]]
    ELSE IF ~r.val.success
    THEN [status |-> r.val.error.httpStatus,
          body |-> [error |-> r.val.error.message, code |-> r.val.error.code]]
    ELSE [status |-> 200, body |-> r.val.value]

\* requests that fail at each step of the pipeline, beside those of the service
PostRequests ==
    Requests \cup
    {FullReq(OfferId, Item("pA", 55, "Over", targetBook, <<sharp>>, "multiplicative", None)) :
        targetBook \in {"DK", "FD", "MGM", "BR"}, sharp \in {"PIN", "CIR", "FD"}}

PostInputs ==
    {[op |-> "POST /calculate-ev", req |-> req, options |-> options, resp |-> resp] :
        req \in PostRequests, options \in Options, resp \in AllResponses}

\* probabilities, those outside [0, 1] included (the pipeline does not clamp
\* them), against decimal odds below 1, at 1 and above
KellyInputs ==
    {[op |-> "calculateKellyFraction", trueProbability |-> Rat(pn, 10), decimalOdds |-> Rat(on, 20)] :
        pn \in {-5, 0, 4, 5, 6, 10, 15}, on \in {10, 20, 21, 40, 200}}

InitFn ==
    /\ redis = EmptyStore
    /\ redisClient = FALSE
    /\ redisAvailable = TRUE
    /\ env = [REDIS_URL |-> TRUE, bun |-> TRUE]
    /\ last \in [input : DevigInputs \cup AverageInputs \cup TargetInputs \cup FetchInputs
                          \cup PostInputs \cup KellyInputs,
                  done : {FALSE}]

DevigOdds ==
    /\ ~last.done /\ last.input.op = "devigOdds"
    /\ last' = [input |-> last.input, done |-> TRUE,
                result |-> devigOdds(last.input.outcomes, last.input.label, last.input.method)]
    /\ UNCHANGED <<redis, redisClient, redisAvailable, env>>

CalculateAverageTrueProbability ==
    /\ ~last.done /\ last.input.op = "average"
    /\ last' = [input |-> last.input, done |-> TRUE,
                result |-> calculateAverageTrueProbability(last.input.pool, last.input.codes,
                                                           last.input.label, last.input.method)]
    /\ UNCHANGED <<redis, redisClient, redisAvailable, env>>

FindTargetOutcomes ==
    /\ ~last.done /\ last.input.op = "findTargetOutcomes"
    /\ last' = [input |-> last.input, done |-> TRUE,
                result |-> findTargetOutcomes(last.input.outcomes, last.input.targetBook,
                                              last.input.line)]
    /\ UNCHANGED <<redis, redisClient, redisAvailable, env>>

FetchFromAPI ==
    /\ ~last.done /\ last.input.op = "fetchFromAPI"
    /\ last' = [input |-> last.input, done |-> TRUE,
                result |-> fetchFromAPI(last.input.offerId, last.input.resp)]
    /\ UNCHANGED <<redis, redisClient, redisAvailable, env>>

\* POST /calculate-ev served from an empty result cache
PostCalculateEV ==
    /\ ~last.done /\ last.input.op = "POST /calculate-ev"
    /\ last' = [input |-> last.input, done |-> TRUE,
                result |-> RouteResponse(calculateEV(EmptyWorld, {}, last.input.req,
                                                     last.input.options, last.input.resp))]
    /\ UNCHANGED <<redis, redisClient, redisAvailable, env>>

CalculateKellyFraction ==
    /\ ~last.done /\ last.input.op = "calculateKellyFraction"
    /\ last' = [input |-> last.input, done |-> TRUE,
                result |-> calculateKellyFraction(last.input.trueProbability,
                                                  last.input.decimalOdds)]
    /\ UNCHANGED <<redis, redisClient, redisAvailable, env>>

NextFn ==
    \/ CalculateKellyFraction
    \/ DevigOdds
    \/ CalculateAverageTrueProbability
    \/ FindTargetOutcomes
    \/ FetchFromAPI
    \/ PostCalculateEV

SpecFn == InitFn /\ [][NextFn]_vars

\* devigOdds was applied
Devigged == last.done /\ last.input.op = "devigOdds"

\* the outcomes devigOdds matches: the first of the side, the first of another label
TargetOf(in) == Find(in.outcomes, {o \in SeqToSet(in.outcomes) : o.label = in.label})
OppositeOf(in) == Find(in.outcomes, {o \in SeqToSet(in.outcomes) : o.label # in.label})

\* a pair devigOdds can work on: both outcomes matched, neither with odds 0
ValidPair(in) ==
    /\ TargetOf(in) # None /\ OppositeOf(in) # None
    /\ TargetOf(in)[1].odds # 0 /\ OppositeOf(in)[1].odds # 0

\* the formula that goes by an accepted method name
FormulaOf(method, p1, p2, label) ==
    CASE method = "multiplicative" -> devigMultiplicative(p1, p2)
      [] method = "additive" -> devigAdditive(p1, p2)
      [] method = "power" -> devigPower(p1, p2)
      [] method = "shin" -> devigShin(p1, p2)
      [] method = "osskeweded" -> devigOsSkewed(p1, p2, label)

\* C13: each of the five devig method names the request boundary accepts is
\* computed by devigOdds with that method's formula on a valid two-outcome
\* pair; none of them ends in the unsupported-method failure.
C13_AcceptedMethodsAreComputed ==
    (Devigged /\ last.input.method \in AcceptedMethods /\ ValidPair(last.input)) =>
        last.result = Ok(FormulaOf(last.input.method,
                                   Rat(TargetOf(last.input)[1].odds, 100),
                                   Rat(OppositeOf(last.input)[1].odds, 100),
                                   last.input.label))

\* the four accepted names the engine knows are computed with their formulas
C13_KnownMethodsAreComputed ==
    (Devigged /\ last.input.method \in AcceptedMethods \ {"osskeweded"} /\ ValidPair(last.input)) =>
        last.result = Ok(FormulaOf(last.input.method,
                                   Rat(TargetOf(last.input)[1].odds, 100),
                                   Rat(OppositeOf(last.input)[1].odds, 100),
                                   last.input.label))

IsDevigError(r) == ~r.success /\ r.error.code = "DEVIG_ERROR" /\ r.error.httpStatus = 422

\* the method names of the switch of devigOdds
SupportedMethods == {"additive", "power", "os_skewed", "shin", "multiplicative"}

\* C14: devigOdds fails with a DevigError, and never succeeds, whenever the
\* requested side has no outcome, no outcome of another label exists, one of
\* the two matched outcomes has odds 0, or the method is not a supported one.
C14_DevigFailures ==
    (Devigged /\ (~ValidPair(last.input) \/ last.input.method \notin SupportedMethods)) =>
        IsDevigError(last.result)

\* a complete pair under a supported method whose opposite outcome has odds 0
C14_Witness ==
    /\ Devigged
    /\ IsDevigError(last.result)
    /\ TargetOf(last.input) # None /\ OppositeOf(last.input) # None
    /\ TargetOf(last.input)[1].odds # 0 /\ OppositeOf(last.input)[1].odds = 0
    /\ last.input.method \in SupportedMethods

\* calculateAverageTrueProbability was applied
Averaged == last.done /\ last.input.op = "average"

\* the devig of one reference book of the pool
DevigOfBook(in, code) ==
    devigOdds(Filter(in.pool, {o \in SeqToSet(in.pool) : o.sportsbookCode = code}),
              in.label, in.method)

\* the reference books of the list whose devig succeeded
Contributors(in) == {code \in SeqToSet(in.codes) : DevigOfBook(in, code).success}

RECURSIVE SumOver(_, _)
\* the sum of the devigged probabilities of the books in S
SumOver(in, S) ==
    IF S = {} THEN RInt(0)
    ELSE RAdd(DevigOfBook(in, CHOOSE c \in S : TRUE).value,
              SumOver(in, S \ {CHOOSE c \in S : TRUE}))

\* C15: the true probability is the arithmetic mean of the devigged
\* probabilities of exactly the reference books whose devig succeeded, and the
\* averaging fails, with a DevigError, if and only if no book's devig succeeded.
C15_MeanOfSuccessfulDevigs ==
    Averaged =>
        IF Contributors(last.input) = {} THEN IsDevigError(last.result)
        ELSE last.result = Ok(RDiv(SumOver(last.input, Contributors(last.input)),
                                   RInt(Cardinality(Contributors(last.input)))))

\* three books listed, the second of which fails to devig: the mean of the
\* other two, which differ
C15_Witness ==
    /\ Averaged
    /\ Len(last.input.codes) = 3
    /\ Contributors(last.input) = {last.input.codes[1], last.input.codes[3]}
    /\ last.result.success
    /\ last.result.value # DevigOfBook(last.input, last.input.codes[1]).value

\* findTargetOutcomes was applied
Targeted == last.done /\ last.input.op = "findTargetOutcomes"

\* the positions of the outcomes of the target book, at the line if one is given
MatchingAt(in) ==
    {i \in DOMAIN in.outcomes :
        /\ in.outcomes[i].sportsbookCode = in.targetBook
        /\ in.line # None => parseFloat(in.outcomes[i].line) = in.line}

Fetched == last.done /\ last.input.op = "fetchFromAPI"

\* the payload fetched is not an array of well-formed Offers
Malformed == last.input.resp.kind \in {"nonArray", "badSchema"}

\* C18 as stated: every fetched payload that is not an array of well-formed
\* Offers (not an array at all, or an array failing schema validation) yields
\* an upstream-error failure: never not-found, never a success.
C18_MalformedIsUpstreamError ==
    (Fetched /\ Malformed) =>
        ~last.result.success /\ last.result.error.code = "API_ERROR"

\* C18 amended: a fetched payload that is not an array yields the not-found
\* failure of the offer, an array failing schema validation yields an
\* upstream-error failure; neither yields a success.
C18_MalformedFails ==
    (Fetched /\ Malformed) =>
        /\ ~last.result.success
        /\ last.input.resp.kind = "nonArray" => last.result.error.code = "OFFER_NOT_FOUND"
        /\ last.input.resp.kind = "badSchema" => last.result.error.code = "API_ERROR"

\* a 200 response whose body is not an array, answered with not-found
C18_Witness ==
    /\ Fetched
    /\ last.input.resp.kind = "nonArray"
    /\ ~last.result.success
    /\ last.result.error.code = "OFFER_NOT_FOUND"

\* the route answered with a failure
PostFailed ==
    last.done /\ last.input.op = "POST /calculate-ev" /\ "code" \in DOMAIN last.result.body

\* the status that goes with a failure kind: not-found 404, conflict 409,
\* unprocessable 422, upstream-error 502 or the error status of the upstream
SeverityMatches(code, status) ==
    CASE code \in {"OFFER_NOT_FOUND", "OFFER_NOT_FOUND_FOR_PLAYER", "TARGET_OUTCOME_NOT_FOUND"} ->
            status = 404
      [] code = "ONE_SIDED_MARKET" -> status = 409
      [] code \in {"NO_SHARP_OUTCOMES", "DEVIG_ERROR"} -> status = 422
      [] code = "API_ERROR" -> status = 502 \/ status \in 400..599
      [] OTHER -> FALSE

\* C19: every failure of the single-item entry point is sent with the severity
\* of its kind (not-found, conflict, unprocessable or upstream-error), never
\* with a success-class or an unclassified status.
C19_FailureSeverity ==
    PostFailed => SeverityMatches(last.result.body.code, last.result.status)

\* the same for the round trips whose payload passes the schema or never arrives
C19_SeverityUnlessSchemaFails ==
    (PostFailed /\ last.input.resp.kind # "badSchema") =>
        SeverityMatches(last.result.body.code, last.result.status)

-----------------------------------------------------------------------------
(* The service asked for Kelly sizing: one signature, with and without a    *)
(* bankroll                                                                  *)

\* the item of ItemOver without a bankroll and with two bankrolls
BankrollItems ==
    {Item("pA", 55, "Over", "DK", <<"PIN">>, "multiplicative", bankroll) :
        bankroll \in {None, Some(500), Some(1000)}}

\* POST /calculate-ev with and without a bankroll; no Redis command rejects
CalculateEVBankroll ==
    /\ last = Idle
    /\ \E it \in BankrollItems, options \in Options, resp \in Responses :
          Called("single", FullReq(OfferId, it), options, resp, {},
                 calculateEV(World, {}, FullReq(OfferId, it), options, resp))

\* POST /calculate-ev/batch with items with and without a bankroll
CalculateEVBatchBankroll ==
    /\ last = Idle
    /\ \E items \in UNION {[1..n -> BankrollItems] : n \in 1..MaxItems},
          options \in Options, resp \in Responses :
          Called("batch", [offerId |-> OfferId, items |-> items], options, resp, {},
                 calculateEVBatch(World, {}, [offerId |-> OfferId, items |-> items], options, resp))

NextKelly == CalculateEVBankroll \/ CalculateEVBatchBankroll \/ Respond \/ ExpireKey

SpecKelly == Init /\ [][NextKelly]_vars

\* the result answers the bankroll of the request: a sizing block exactly when
\* a bankroll was given, made for that bankroll
SizedFor(result, req) ==
    /\ result.kelly # None <=> req.bankroll # None
    /\ result.kelly # None /\ req.bankroll # None => result.kelly[1].bankroll = req.bankroll[1]

\* C20: a successful result holds a Kelly sizing block if and only if the
\* request gave a bankroll, and the block's bankroll is the request's; this
\* holds for every successful result returned, computed or read from the cache.
C20_KellyIffBankroll ==
    /\ (last.op = "single" /\ last.out.success) => SizedFor(last.out.value, last.req)
    /\ last.op = "batch" =>
          \A i \in DOMAIN last.out.results :
              last.out.results[i].success =>
                  SizedFor(last.out.results[i].result, last.req.items[i])

\* the same for the results computed during the request
C20_KellyIffBankrollWhenComputed ==
    /\ (last.op = "single" /\ last.out.success /\ last.steps[1].computed) =>
          SizedFor(last.out.value, last.req)
    /\ last.op = "batch" =>
          \A i \in DOMAIN last.steps :
              last.out.results[i].success /\ last.steps[i].computed =>
                  SizedFor(last.out.results[i].result, last.req.items[i])


-----------------------------------------------------------------------------
(* Properties of the devig formulas *)

\* C21: on every input, whichever side is asked, devigOdds with method 'shin'
\* returns exactly what devigOdds with method 'additive' returns on the same
\* outcomes and side: the same probability, or the same failure.
C21_ShinIsAdditive ==
    (Devigged /\ last.input.method = "shin")
        => last.result = devigOdds(last.input.outcomes, last.input.label, "additive")

\* Shin was applied to a market with a margin: Over at 0.50 against Under at 0.55
C21_Witness ==
    /\ Devigged /\ last.input.method = "shin" /\ last.input.label = "Over"
    /\ ValidPair(last.input)
    /\ TargetOf(last.input)[1].odds = 50 /\ OppositeOf(last.input)[1].odds = 55
    /\ last.result = Ok(Rat(19, 40))

\* a market without margin: both outcomes matched, p1 > 0, p2 > 0, p1 + p2 = 1
FairMarket(in) ==
    ValidPair(in) /\ TargetOf(in)[1].odds + OppositeOf(in)[1].odds = 100

\* p1 of the input: the implied probability of the side asked
ImpliedOf(in) == Rat(TargetOf(in)[1].odds, 100)

-----------------------------------------------------------------------------
(* Properties of the Kelly fraction *)

\* calculateKellyFraction was applied
Kellied == last.done /\ last.input.op = "calculateKellyFraction"

\* p * odds <= 1: a bet at break-even or with a negative edge
NoEdge(in) == RLeq(RMul(in.trueProbability, in.decimalOdds), RInt(1))

\* C23: calculateKellyFraction(p, odds) returns exactly 0 for all inputs with
\* p * odds <= 1.
C23_NoEdgeNoStake ==
    (Kellied /\ NoEdge(last.input)) => last.result = RInt(0)

\* the same for decimal odds that pay something (odds > 1)
C23_NoEdgeNoStakeAtPayingOdds ==
    (Kellied /\ NoEdge(last.input) /\ ~RLeq(last.input.decimalOdds, RInt(1)))
        => last.result = RInt(0)

\* the result is a number of the interval [0, 1]
InUnitInterval(x) ==
    /\ DOMAIN x = {"n", "d"}
    /\ RLeq(RInt(0), x) /\ RLeq(x, RInt(1))

\* C24: for all inputs calculateKellyFraction returns a value within the
\* interval [0, 1].
C24_KellyInUnitInterval ==
    Kellied => InUnitInterval(last.result)

\* the same for a probability of [0, 1] (below 0 included) at decimal odds above 1
C24_InUnitIntervalForProbabilities ==
    (Kellied /\ RLeq(last.input.trueProbability, RInt(1))
        /\ ~RLeq(last.input.decimalOdds, RInt(1)))
        => InUnitInterval(last.result)

-----------------------------------------------------------------------------
(* calculateEV with its fetch in flight: the handler runs up to the request  *)
(* it sends upstream, other handlers run while it waits, and it goes on with *)
(* the payload the upstream had when it asked.  `last` keeps the history:    *)
(* the payload the latest fetch observed, the requests waiting, the latest   *)
(* answer taken from the result cache, and whether the run so far has been   *)
(* plain (no skipCache fetch, no request started while another waited).     *)

\* most requests waiting for the upstream at a time
MaxInFlight == 2

\* requests that succeed on both versions of the payload
AwaitRequests == {FullReq(OfferId, ItemOver), FullReq(OfferId, ItemUnder)}

InitAwait ==
    /\ redis = EmptyStore
    /\ redisClient = FALSE
    /\ redisAvailable = TRUE
    /\ env = [REDIS_URL |-> TRUE, bun |-> TRUE]
    /\ last = [observed |-> None, pending |-> {}, hit |-> None, plain |-> TRUE]

\* calculateEV from its start to `await fetchFromAPI(offerId)`: the lookup of
\* the result cache, answered at once on a hit, and the request sent upstream
CalculateEVToFetch ==
    \E req \in AwaitRequests, options \in Options, offers \in {PayloadV1, PayloadV2} :
        \E g \in {cachedLookup(World, {}, req, options)} :
            /\ redis' = g.w.db
            /\ redisClient' = g.w.client
            /\ redisAvailable' = g.w.avail
            /\ IF g.val # None
               THEN last' = [last EXCEPT !.hit = Some([req |-> req, value |-> g.val[1]]),
                                         !.plain = @ /\ last.pending = {}]
               ELSE /\ Cardinality(last.pending) < MaxInFlight
                    /\ last' = [observed |-> Some(offers),
                                pending |-> last.pending \cup
                                    {[req |-> req, options |-> options, offers |-> offers]},
                                hit |-> None,
                                plain |-> last.plain /\ ~options.skipCache /\ last.pending = {}]
            /\ UNCHANGED env

\* calculateEV from the upstream's answer to its return: the offers are cached
\* (unless skipCache), the participant resolved, the result computed and stored
CalculateEVFromFetch ==
    \E p \in last.pending :
        \E f \in {fetchOddsShopperData(World, {}, p.req.offerId, p.options,
                                       Response("ok", 200, p.offers))} :
        \E offerResult \in {findSpecificOffer(f.val.value, p.req.playerId)} :
        \E result \in {IF offerResult.success THEN calculateEVFromOffer(offerResult.value, p.req)
                       ELSE offerResult} :
        \E c \in {IF result.success THEN setCachedEVResult(f.w, {}, p.req, result.value)
                  ELSE Ret(f.w, None)} :
            /\ redis' = c.w.db
            /\ redisClient' = c.w.client
            /\ redisAvailable' = c.w.avail
            /\ last' = [last EXCEPT !.pending = @ \ {p}, !.hit = None]
            /\ UNCHANGED env

NextAwait == CalculateEVToFetch \/ CalculateEVFromFetch

SpecAwait == InitAwait /\ [][NextAwait]_vars

\* what the request yields on the payload the latest fetch observed
FromObserved(req) ==
    calculateEVFromOffer(findSpecificOffer(last.observed[1], req.playerId).value, req).value

\* C25: once a fetch has observed offer data of an (offer, participant) pair,
\* an answer taken from the result cache for that pair is the result on the
\* data observed, not a result computed from data that differed from it; with
\* skipCache fetches and with requests in flight together.
C25_NoStaleHit ==
    (last.hit # None /\ last.observed # None)
        => last.hit[1].value = FromObserved(last.hit[1].req)

\* the same in runs without a skipCache fetch and without a request started
\* while another waited for the upstream
C25_NoStaleHitInPlainRuns ==
    (last.plain /\ last.hit # None /\ last.observed # None)
        => last.hit[1].value = FromObserved(last.hit[1].req)

\* the same with requests whose fetches overlap, when no Redis command rejects
C26_HashMatchesWithoutRejections == HashMatchesOffer

-----------------------------------------------------------------------------
(* Properties of the reference-book average inside the pipeline *)

\* POST /calculate-ev was answered with a result
PostSucceeded ==
    /\ last.done /\ last.input.op = "POST /calculate-ev"
    /\ last.result.status = 200 /\ "trueProbability" \in DOMAIN last.result.body

\* the outcomes of the participant's offer in the payload of the request
PostedOutcomes ==
    Only({FlatMap([i \in 1..Len(offer.sides) |-> offer.sides[i].outcomes]) :
            offer \in {findSpecificOffer(last.input.resp.offers, last.input.req.playerId).value}})

\* the outcomes quoted at the line of the request
AtRequestedLine(outcomes) ==
    Filter(outcomes, {o \in SeqToSet(outcomes) : parseFloat(o.line) = Some(last.input.req.line)})

\* the average over the reference books when each is devigged on `pool`
ReferenceAverage(pool) ==
    calculateAverageTrueProbability(
        Filter(pool, {o \in SeqToSet(pool) :
                        o.sportsbookCode \in SeqToSet(findAvailableSharpBooks(PostedOutcomes, last.input.req.sharps).value)}),
        findAvailableSharpBooks(PostedOutcomes, last.input.req.sharps).value,
        last.input.req.side, last.input.req.devigMethod)

\* C27: the Over and Under outcomes a reference book is devigged on are both
\* quoted at the requested line: the true probability of a result is the
\* average computed from the reference books' outcomes at that line alone, and
\* outcomes at any other line do not enter it.
C27_ReferencePairAtRequestedLine ==
    PostSucceeded
        => /\ ReferenceAverage(AtRequestedLine(PostedOutcomes)).success
           /\ last.result.body.trueProbability
                  = ReferenceAverage(AtRequestedLine(PostedOutcomes)).value

\* the same on payloads in which every reference book quotes one line only
C27_AtRequestedLineOnSingleLineBooks ==
    (PostSucceeded /\ last.input.resp.offers # << OfferAnon, OfferLadder >>)
        => /\ ReferenceAverage(AtRequestedLine(PostedOutcomes)).success
           /\ last.result.body.trueProbability
                  = ReferenceAverage(AtRequestedLine(PostedOutcomes)).value

-----------------------------------------------------------------------------
(* Properties of the order of the pipeline's failures *)

\* POST /calculate-ev was answered
Posted == last.done /\ last.input.op = "POST /calculate-ev"

\* the outcomes of the first offer of the request's participant, <<>> without one
OutcomesOfRequest ==
    LET mine == Filter(last.input.resp.offers,
                       {o \in SeqToSet(last.input.resp.offers) :
                           o.participants # <<>> /\ o.participants[1].id = last.input.req.playerId})
    IN IF last.input.resp.kind # "ok" \/ mine = <<>> THEN <<>>
       ELSE FlatMap([i \in 1..Len(mine[1].sides) |-> mine[1].sides[i].outcomes])

\* the outcomes of one book
OfBook(outcomes, book) == Filter(outcomes, {o \in SeqToSet(outcomes) : o.sportsbookCode = book})

\* the reference books of the request that quote an Over and an Under
QuotingBothSides ==
    {code \in SeqToSet(last.input.req.sharps) :
        {"Over", "Under"} \subseteq {o.label : o \in SeqToSet(OfBook(OutcomesOfRequest, code))}}

\* the target book's outcomes at the line of the request
TargetAtLine ==
    Filter(OfBook(OutcomesOfRequest, last.input.req.targetBook),
           {o \in SeqToSet(OutcomesOfRequest) : parseFloat(o.line) = Some(last.input.req.line)})

\* the steps whose precondition fails on this request and payload, by number:
\* 1 fetch, 2 participant, 3 reference books, 4 target outcomes, 5 American
\* odds, 6 reference-book average, 7 target-book devig
FailingSteps ==
    {step \in 1..7 :
        CASE step = 1 -> last.input.resp.kind # "ok"
          [] step = 2 -> \A o \in SeqToSet(last.input.resp.offers) :
                            o.participants = <<>> \/ o.participants[1].id # last.input.req.playerId
          [] step = 3 -> QuotingBothSides = {}
          [] step = 4 -> \/ Len(TargetAtLine) # 2
                         \/ {o.label : o \in SeqToSet(TargetAtLine)} # {"Over", "Under"}
          [] step = 5 -> \A o \in SeqToSet(TargetAtLine) :
                            o.label = last.input.req.side => isNaN(parseInt(o.americanOdds))
          [] step = 6 -> \A code \in QuotingBothSides :
                            ~devigOdds(OfBook(OutcomesOfRequest, code), last.input.req.side,
                                       last.input.req.devigMethod).success
          [] step = 7 -> ~devigOdds(TargetAtLine, last.input.req.side,
                                    last.input.req.devigMethod).success}

\* the step a failure comes from, by its code and message
StepOf(error) ==
    CASE error.code \in {"API_ERROR", "OFFER_NOT_FOUND"} -> 1
      [] error.code = "OFFER_NOT_FOUND_FOR_PLAYER" -> 2
      [] error.code = "NO_SHARP_OUTCOMES" -> 3
      [] error.code \in {"TARGET_OUTCOME_NOT_FOUND", "ONE_SIDED_MARKET"} -> 4
      [] error.code \in {"TARGET_BOOK_SIDE_MISSING", "INVALID_ODDS"} -> 5
      [] error.code = "DEVIG_ERROR"
           /\ error.error = <<"No sharp books provided valid two-sided probability data.">> -> 6
      [] error.code = "DEVIG_ERROR" -> 7
      [] OTHER -> 0

\* C30: when preconditions of several steps of the pipeline fail at once,
\* calculateEV reports the failure of the earliest of them in the order fetch,
\* participant resolution, reference-book resolution, target-outcome
\* resolution, American-odds extraction, reference-book devig averaging,
\* target-book devig; it succeeds only when none fails.
C30_EarliestFailureReported ==
    Posted =>
        IF "code" \in DOMAIN last.result.body
        THEN /\ StepOf(last.result.body) \in FailingSteps
             /\ \A step \in FailingSteps : StepOf(last.result.body) <= step
        ELSE FailingSteps = {}

\* no reference book quotes both sides, the target book is not quoted, and the
\* failure reported is that of the reference books
C30_Witness ==
    /\ Posted
    /\ {3, 4} \subseteq FailingSteps /\ FailingSteps \cap {1, 2} = {}
    /\ last.result.body.code = "NO_SHARP_OUTCOMES"

=============================================================================
